---- MODULE Spec2Model ----
(***************************************************************************)
(* A model of the duplex split node of dorado                              *)
(* (src/dorado/read_pipeline/DuplexSplitNode.cpp): the range algebra, the  *)
(* subread factory, the cut operation, the five split finders, and the     *)
(* pipeline node with its work queue, worker threads and destructor.       *)
(*                                                                         *)
(* Coordinates are 0-based and ranges half-open, as in the source; the     *)
(* TLA+ sequences that hold strings, move vectors and signals are 1-based, *)
(* so element i of the source is element i+1 of the sequence.              *)
(***************************************************************************)
EXTENDS Integers, Sequences, FiniteSets, Bags, TLC

VARIABLES
    m_settings,             \* DuplexSplitSettings of the node
    build,                  \* the build and the machine: [ndebug, ub_abort,
                            \* utc_offset, edlib_status]: whether assertions are
                            \* compiled out, whether an undefined operation ends
                            \* the process, the seconds local time is ahead of
                            \* UTC, and the status the aligner returns
    m_split_finders,        \* the finders registered by the constructor
    m_num_worker_threads,   \* width of the worker pool
    m_work_queue,           \* AsyncQueue of the node: [items, terminate]
    workers,                \* per worker thread: [pc, message, to_split, cuts]:
                            \* its position, the message it popped, the reads it
                            \* has yet to push, the cuts it made on the message
    m_sink,                 \* the downstream sink: [log, terminate_calls]; a log
                            \* entry holds the message pushed, the worker that
                            \* pushed it, the input it was made from, how many
                            \* subreads of the input were left to push, the cuts
                            \* made on the input, and whether the sink had been
                            \* terminated
    dtor,                   \* the destructor: [pc, joined]
    aborted,                \* the process was ended (assertion, exception, crash)
    upstream,               \* messages the upstream node has yet to push
    accepted,               \* messages the work queue took, in order
    fn_pc,                  \* position of the single-call harness: "in", "out"
    fn_read,                \* the parent read handed to split()
    fn_spacers,             \* the spacer list handed to split()
    fn_args,                \* the arguments handed to one of the free functions
    fn_out,                 \* what the function called produced
    modbase,                \* the ModBaseCallerNode: its queues, flags, counters and
                            \* threads, <<>> where the node is not constructed
    aligner                 \* the Aligner node: its queue, the counter m_active and
                            \* its threads, <<>> where the node is not constructed

fnvars == <<fn_pc, fn_read, fn_spacers, fn_args, fn_out>>

nodevars == <<m_split_finders, m_num_worker_threads, m_work_queue, workers, m_sink, dtor,
              aborted, upstream, accepted>>

othernodes == <<modbase, aligner>>

vars == <<m_settings, build, nodevars, fnvars, othernodes>>

(***************************************************************************)
(* Bounds of the model.                                                    *)
(***************************************************************************)
MaxMoves == 3
MaxSpacers == 2
MaxWorkers == 2
MaxMessages == 2
MaxQueue == 1
MaxHigh == 2

(***************************************************************************)
(* Generic helpers.                                                        *)
(***************************************************************************)
Min(a, b) == IF a <= b THEN a ELSE b

\* elements [a, b) of a 0-based container; empty when b <= a
Slice(s, a, b) == IF b > a THEN SubSeq(s, a + 1, b) ELSE <<>>

RECURSIVE SumSeq(_)
SumSeq(s) == IF s = <<>> THEN 0 ELSE s[1] + SumSeq(Tail(s))

RECURSIVE SeqsUpTo(_, _)
SeqsUpTo(S, n) ==
    IF n = 0 THEN {<<>>}
    ELSE LET shorter == SeqsUpTo(S, n - 1)
         IN shorter \cup {Append(s, x) : s \in {t \in shorter : Len(t) = n - 1}, x \in S}

SeqsOfLen(S, n) == [1..n -> S]

\* the elements of a sequence
Elements(s) == {s[k] : k \in DOMAIN s}

\* a PosRange is a pair <<first, second>>
First(r) == r[1]

Second(r) == r[2]

(***************************************************************************)
(* Timestamps.  A timestamp string "%Y-%m-%dT%H:%M:%S.<ms>+00:00" is the   *)
(* record [s |-> seconds since the epoch named by the part before the dot, *)
(* ms |-> the digits between the dot and the "+00:00" tail].               *)
(***************************************************************************)
\* the builds and machines of the node, local time being UTC and the
\* aligner returning EDLIB_STATUS_OK
Builds == [ndebug : BOOLEAN, ub_abort : BOOLEAN, utc_offset : {0}, edlib_status : {"OK"}]

RECURSIVE to_string(_)
to_string(n) == IF n < 10 THEN <<n>> ELSE Append(to_string(n \div 10), n % 10)

RECURSIVE stoi(_)
stoi(digits) ==
    IF digits = <<>> THEN 0
    ELSE 10 * stoi(SubSeq(digits, 1, Len(digits) - 1)) + digits[Len(digits)]

get_string_timestamp_from_unix_time(time_stamp_ms) ==
    [s |-> time_stamp_ms \div 1000, ms |-> to_string(time_stamp_ms % 1000)]

\* mktime() reads the broken-down time as local time
mktime(base_time) == base_time - build.utc_offset

get_unix_time_from_string_timestamp(time_stamp) ==
    mktime(time_stamp.s) * 1000 + stoi(time_stamp.ms)

adjust_time_ms(time_stamp, offset_ms) ==
    get_string_timestamp_from_unix_time(
        get_unix_time_from_string_timestamp(time_stamp) + offset_ms)

(***************************************************************************)
(* Move vector helpers.                                                    *)
(***************************************************************************)
move_cum_sums(moves) == [i \in 1..Len(moves) |-> SumSeq(SubSeq(moves, 1, i))]

RECURSIVE MovePositions(_, _)
MovePositions(moves, i) ==
    IF i > Len(moves) THEN <<>>
    ELSE (IF moves[i] = 1 THEN <<i - 1>> ELSE <<>>) \o MovePositions(moves, i + 1)

\* utils::moves_to_map: the sample at which each base starts, then signal_len
moves_to_map(moves, block_stride, signal_len) ==
    [k \in 1..Len(MovePositions(moves, 1)) |-> MovePositions(moves, 1)[k] * block_stride]
        \o <<signal_len>>

(***************************************************************************)
(* Identifiers.  SHA-256 is taken as collision free: the derived id is the *)
(* pair of hashed inputs, the parent id followed by the description        *)
(* "<first>-<second>" (held as the two numbers).                           *)
(***************************************************************************)
derive_uuid(input_uuid, desc) == input_uuid \o desc

(***************************************************************************)
(* Reads.  raw_data holds one current level per sample; scale and shift    *)
(* map it to picoamps.  Fields that copy_read carries over and nothing in  *)
(* the node reads or writes (digitisation, range, offset, run_id, ...) are *)
(* one opaque field, carried.                                              *)
(***************************************************************************)
ReadNumberUnknown == -1

copy_read(read) ==
    [read_id |-> read.read_id,
     parent_read_id |-> <<>>,
     seq |-> read.seq,
     qstring |-> read.qstring,
     moves |-> read.moves,
     raw_data |-> read.raw_data,
     model_stride |-> read.model_stride,
     sample_rate |-> read.sample_rate,
     shift |-> read.shift,
     scale |-> read.scale,
     num_trimmed_samples |-> read.num_trimmed_samples,
     start_time |-> read.start_time,
     read_number |-> read.read_number,
     carried |-> read.carried]

\* std::string::substr(first, second - first) with the count in uint64_t:
\* a count that wrapped around takes the rest of the string
substr(s, first, second) ==
    IF second >= first THEN Slice(s, first, Min(second, Len(s)))
    ELSE Slice(s, first, Len(s))

\* the two assertions at the head of subread()
subread_pre(read, seq_range, signal_range) ==
    /\ First(signal_range) % read.model_stride = 0
    /\ \/ Second(signal_range) % read.model_stride = 0
       \/ /\ Second(signal_range) = Len(read.raw_data)
          /\ Second(seq_range) = Len(read.seq)

\* the iterator pair of the move slice designates a range of read.moves
subread_moves_defined(read, signal_range) ==
    /\ First(signal_range) \div read.model_stride <= Second(signal_range) \div read.model_stride
    /\ Second(signal_range) \div read.model_stride <= Len(read.moves)

\* the child, in the cases where every step of subread() is defined
subread(read, seq_range, signal_range) ==
    [copy_read(read) EXCEPT
        !.read_id = derive_uuid(read.read_id, <<First(seq_range), Second(seq_range)>>),
        !.raw_data = Slice(read.raw_data, First(signal_range),
                           Min(Second(signal_range), Len(read.raw_data))),
        !.read_number = ReadNumberUnknown,
        !.start_time = adjust_time_ms(read.start_time,
                          ((read.num_trimmed_samples + First(signal_range)) * 1000)
                              \div read.sample_rate),
        !.num_trimmed_samples = 0,
        !.seq = substr(read.seq, First(seq_range), Second(seq_range)),
        !.qstring = substr(read.qstring, First(seq_range), Second(seq_range)),
        !.moves = IF subread_moves_defined(read, signal_range)
                  THEN Slice(read.moves, First(signal_range) \div read.model_stride,
                             Second(signal_range) \div read.model_stride)
                  ELSE <<>>]

\* the assertion at the end of subread()
subread_post(read, signal_range, child) ==
    \/ Second(signal_range) = Len(read.raw_data)
    \/ Len(child.moves) * read.model_stride = Len(child.raw_data)

\* "ok" when subread() returns the child, "abort" when the process ends in it:
\* a failed assertion (builds without NDEBUG), std::out_of_range from substr,
\* or an invalid iterator pair on a machine where that ends the process
subread_status(read, seq_range, signal_range) ==
    IF ~build.ndebug /\ ~subread_pre(read, seq_range, signal_range) THEN "abort"
    ELSE IF First(seq_range) > Len(read.seq) THEN "abort"
    ELSE IF ~subread_moves_defined(read, signal_range) /\ build.ub_abort THEN "abort"
    ELSE IF ~build.ndebug /\ ~subread_post(read, signal_range,
                                           subread(read, seq_range, signal_range)) THEN "abort"
    ELSE "ok"

(***************************************************************************)
(* The cut operation.                                                      *)
(***************************************************************************)
\* seq_to_sig_map[i]; an index past the end reads outside the vector
MapDefined(map, i) == i + 1 \in DOMAIN map

MapAt(map, i) == IF MapDefined(map, i) THEN map[i + 1] ELSE 0

\* split() with  start_pos = r.first  in place of  start_pos = r.second:
\* the next child starts at the start of the spacer, not at its end
RECURSIVE SplitLoopKeepSpacer(_, _, _, _, _)
SplitLoopKeepSpacer(read, map, spacers, start_pos, signal_start) ==
    IF spacers = <<>>
    THEN << <<<<start_pos, Len(read.seq)>>, <<signal_start, Len(read.raw_data)>>>> >>
    ELSE << <<<<start_pos, First(spacers[1])>>,
              <<signal_start, MapAt(map, First(spacers[1]))>>>> >>
         \o SplitLoopKeepSpacer(read, map, Tail(spacers), First(spacers[1]),
                                MapAt(map, First(spacers[1])))

\* the arguments of the calls of subread() that split() makes, in order:
\* each is <<seq_range, signal_range>>
RECURSIVE SplitLoop(_, _, _, _, _)
SplitLoop(read, map, spacers, start_pos, signal_start) ==
    IF spacers = <<>>
    THEN << <<<<start_pos, Len(read.seq)>>, <<signal_start, Len(read.raw_data)>>>> >>
    ELSE << <<<<start_pos, First(spacers[1])>>,
              <<signal_start, MapAt(map, First(spacers[1]))>>>> >>
         \o SplitLoop(read, map, Tail(spacers), Second(spacers[1]),
                      MapAt(map, Second(spacers[1])))

SplitCalls(read, spacers) ==
    LET seq_to_sig_map == moves_to_map(read.moves, read.model_stride, Len(read.raw_data))
    IN SplitLoop(read, seq_to_sig_map, spacers, 0, MapAt(seq_to_sig_map, 0))

\* every index split() reads from seq_to_sig_map is inside it
SplitMapDefined(read, spacers) ==
    LET seq_to_sig_map == moves_to_map(read.moves, read.model_stride, Len(read.raw_data))
    IN /\ MapDefined(seq_to_sig_map, 0)
       /\ MapDefined(seq_to_sig_map, Len(read.seq))
       /\ \A k \in 1..Len(spacers) :
              /\ MapDefined(seq_to_sig_map, First(spacers[k]))
              /\ MapDefined(seq_to_sig_map, Second(spacers[k]))

\* the assertion before the last subread() call of split()
split_assert(read) ==
    LET seq_to_sig_map == moves_to_map(read.moves, read.model_stride, Len(read.raw_data))
    IN Len(read.raw_data) = MapAt(seq_to_sig_map, Len(read.seq))

split_status(read, spacers) ==
    LET calls == SplitCalls(read, spacers)
    IN IF spacers = <<>> THEN "ok"
       ELSE IF ~SplitMapDefined(read, spacers) /\ build.ub_abort THEN "abort"
       ELSE IF \E k \in 1..Len(calls) :
                  subread_status(read, calls[k][1], calls[k][2]) = "abort"
            THEN "abort"
       ELSE IF ~build.ndebug /\ ~split_assert(read) THEN "abort"
       ELSE "ok"

split(read, spacers) ==
    IF spacers = <<>> THEN <<read>>
    ELSE LET calls == SplitCalls(read, spacers)
         IN [k \in 1..Len(calls) |-> subread(read, calls[k][1], calls[k][2])]

(***************************************************************************)
(* Range algebra.                                                          *)
(***************************************************************************)
\* std::copy_if: the ranges that pass, in their order; filter_f is the
\* predicate, tabulated over the ranges it is asked about
filter_ranges(ranges, filter_f) ==
    LET passes(r) == filter_f[r]
    IN SelectSeq(ranges, passes)

RECURSIVE MergeLoop(_, _, _)
MergeLoop(merged, ranges, merge_dist) ==
    IF ranges = <<>> THEN merged
    ELSE LET r == ranges[1]
         IN IF merged = <<>> \/ First(r) > Second(merged[Len(merged)]) + merge_dist
            THEN MergeLoop(Append(merged, r), Tail(ranges), merge_dist)
            ELSE MergeLoop([merged EXCEPT ![Len(merged)] = <<First(merged[Len(merged)]), Second(r)>>],
                           Tail(ranges), merge_dist)

\* a merge that leaves apart two ranges at exactly merge_dist
RECURSIVE MergeLoopAtDist(_, _, _)
MergeLoopAtDist(merged, ranges, merge_dist) ==
    IF ranges = <<>> THEN merged
    ELSE LET r == ranges[1]
         IN IF merged = <<>> \/ First(r) >= Second(merged[Len(merged)]) + merge_dist
            THEN MergeLoopAtDist(Append(merged, r), Tail(ranges), merge_dist)
            ELSE MergeLoopAtDist([merged EXCEPT ![Len(merged)] = <<First(merged[Len(merged)]), Second(r)>>],
                                 Tail(ranges), merge_dist)

merge_ranges_at_dist(ranges, merge_dist) == MergeLoopAtDist(<<>>, ranges, merge_dist)

\* a merge in which a range that has taken one range in takes no other
RECURSIVE MergeLoopOnce(_, _, _, _)
MergeLoopOnce(merged, ranges, merge_dist, taken) ==
    IF ranges = <<>> THEN merged
    ELSE LET r == ranges[1]
         IN IF merged = <<>> \/ taken \/ First(r) > Second(merged[Len(merged)]) + merge_dist
            THEN MergeLoopOnce(Append(merged, r), Tail(ranges), merge_dist, FALSE)
            ELSE MergeLoopOnce([merged EXCEPT ![Len(merged)] = <<First(merged[Len(merged)]), Second(r)>>],
                               Tail(ranges), merge_dist, TRUE)

merge_ranges_once(ranges, merge_dist) == MergeLoopOnce(<<>>, ranges, merge_dist, FALSE)

merge_ranges(ranges, merge_dist) == MergeLoop(<<>>, ranges, merge_dist)

\* the assertion inside the loop of merge_ranges()
merge_ranges_assert(ranges) ==
    \A k \in 1..(Len(ranges) - 1) : First(ranges[k + 1]) >= First(ranges[k])

(***************************************************************************)
(* Pore signal detection.                                                  *)
(***************************************************************************)
\* the loop of detect_pore_signal() from sample i on: <<ans, start, end>>
RECURSIVE DetectLoop(_, _, _, _, _, _, _)
DetectLoop(signal, threshold, cluster_dist, i, ans, start, end) ==
    IF i >= Len(signal) THEN <<ans, start, end>>
    ELSE IF signal[i + 1] > threshold
         THEN IF end = 0 \/ i > end + cluster_dist
              THEN DetectLoop(signal, threshold, cluster_dist, i + 1,
                              IF end > 0 THEN Append(ans, <<start, end>>) ELSE ans,
                              i, i + 1)
              ELSE DetectLoop(signal, threshold, cluster_dist, i + 1, ans, start, i + 1)
         ELSE DetectLoop(signal, threshold, cluster_dist, i + 1, ans, start, end)

detect_pore_signal(signal, threshold, cluster_dist, ignore_prefix) ==
    LET loop == DetectLoop(signal, threshold, cluster_dist, ignore_prefix, <<>>, 0, 0)
    IN IF loop[3] > 0 THEN Append(loop[1], <<loop[2], loop[3]>>) ELSE loop[1]

\* the assertion at the end of detect_pore_signal()
detect_pore_signal_assert(signal, threshold, cluster_dist, ignore_prefix) ==
    LET loop == DetectLoop(signal, threshold, cluster_dist, ignore_prefix, <<>>, 0, 0)
    IN loop[2] < Len(signal) /\ loop[3] <= Len(signal)

(***************************************************************************)
(* The edit-distance aligner (edlib), infix mode: the query is aligned to  *)
(* the substring of the target that gives the least edit distance; with a  *)
(* bound k >= 0 a least distance above k is reported as -1.  Of the best   *)
(* matches the one that ends first is reported, with its leftmost start.   *)
(***************************************************************************)
RECURSIVE EditDistance(_, _)
EditDistance(a, b) ==
    IF a = <<>> THEN Len(b)
    ELSE IF b = <<>> THEN Len(a)
    ELSE Min(EditDistance(Tail(a), Tail(b)) + (IF a[1] = b[1] THEN 0 ELSE 1),
             Min(EditDistance(Tail(a), b) + 1, EditDistance(a, Tail(b)) + 1))

SetMin(S) == CHOOSE x \in S : \A y \in S : x <= y

edlibAlign(query, target, k) ==
    LET places == {p \in (0..Len(target)) \X (0..Len(target)) : p[1] < p[2]}
        dist(p) == EditDistance(query, Slice(target, p[1], p[2]))
        best == SetMin({dist(p) : p \in places} \cup {Len(query)})
        ends == {p[2] : p \in {q \in places : dist(q) = best}}
        end == IF ends = {} THEN 0 ELSE SetMin(ends)
        starts == {p[1] : p \in {q \in places : q[2] = end /\ dist(q) = best}}
    IN [status |-> build.edlib_status,
        editDistance |-> IF k >= 0 /\ best > k THEN -1 ELSE best,
        startLocation |-> IF starts = {} THEN 0 ELSE SetMin(starts),
        endLocation |-> end - 1]

Complement(b) ==
    CASE b = "A" -> "T" [] b = "T" -> "A" [] b = "C" -> "G" [] b = "G" -> "C" [] OTHER -> "N"

reverse_complement(s) == [i \in 1..Len(s) |-> Complement(s[Len(s) + 1 - i])]

(***************************************************************************)
(* Adapter matching and the flank check.  NoMatch is std::nullopt.         *)
(***************************************************************************)
NoMatch == <<>>

\* the assertion on the subrange in find_best_adapter_match()
SubrangeValid(seq, subrange) ==
    First(subrange) <= Second(subrange) /\ Second(subrange) <= Len(seq)

find_best_adapter_match(adapter, seq, dist_thr, subrange) ==
    LET shift == First(subrange)
        span == Second(subrange) - First(subrange)
        edlib_result == edlibAlign(adapter, Slice(seq, shift, shift + span), dist_thr)
    IN IF ~SubrangeValid(seq, subrange) \/ span = 0 THEN NoMatch
       ELSE IF edlib_result.status = "OK" /\ edlib_result.editDistance # -1
            THEN <<edlib_result.startLocation + shift, edlib_result.endLocation + shift + 1>>
            ELSE NoMatch

\* the ranges of an optional match: the match if there is one
MatchAsRanges(match) == IF match # NoMatch THEN <<match>> ELSE <<>>

find_adapter_matches(adapter, seq, dist_thr, subrange) ==
    MatchAsRanges(find_best_adapter_match(adapter, seq, dist_thr, subrange))

\* the assertion at the head of check_rc_match()
check_rc_match_assert(templ_r, compl_r, dist_thr) ==
    /\ Second(templ_r) > First(templ_r)
    /\ Second(compl_r) > First(compl_r)
    /\ dist_thr >= 0

check_rc_match(seq, templ_r, compl_r, dist_thr) ==
    LET rc_compl == reverse_complement(Slice(seq, First(compl_r), Second(compl_r)))
        edlib_result == edlibAlign(Slice(seq, First(templ_r), Second(templ_r)),
                                   rc_compl, dist_thr)
    IN edlib_result.status = "OK" /\ edlib_result.editDistance # -1

(***************************************************************************)
(* ExtRead: a read with its signal as float and its move cumulative sums.  *)
(***************************************************************************)
ExtRead(r) ==
    [read |-> r, data_as_float32 |-> r.raw_data, move_sums |-> move_cum_sums(r.moves)]

\* the assertion in the constructor; back() of an empty vector is undefined
ExtRead_status(r) ==
    IF build.ndebug THEN "ok"
    ELSE IF r.moves = <<>> THEN (IF build.ub_abort THEN "abort" ELSE "ok")
    ELSE IF SumSeq(r.moves) # Len(r.seq) THEN "abort"
    ELSE "ok"

\* ExtRead(std::move(subread)) for each of the subreads
ExtReads(subreads) == [k \in 1..Len(subreads) |-> ExtRead(subreads[k])]

(***************************************************************************)
(* Pore regions in sequence coordinates.                                   *)
(***************************************************************************)
\* the raw-scale threshold for a threshold in picoamps
RawThreshold(read, pore_thr) == (pore_thr - read.shift) \div read.scale

PoreSignalRegions(read, pore_thr) ==
    detect_pore_signal(read.data_as_float32, RawThreshold(read.read, pore_thr),
                       m_settings.pore_cl_dist, m_settings.expect_pore_prefix)

\* whether the loop body of possible_pore_regions() keeps the signal region
PoreRegionKept(read, pore_signal_region) ==
    LET move_start == First(pore_signal_region) \div read.read.model_stride
        move_end == Second(pore_signal_region) \div read.read.model_stride
    IN ~ (\/ move_start >= Len(read.move_sums)
          \/ move_end >= Len(read.move_sums)
          \/ read.move_sums[move_start + 1] = 0)

\* the range without the base before the pore signal
PoreRegionFromStart(read, pore_signal_region) ==
    LET move_start == First(pore_signal_region) \div read.read.model_stride
        move_end == Second(pore_signal_region) \div read.read.model_stride
    IN <<read.move_sums[move_start + 1], read.move_sums[move_end + 1]>>

PoreRegionToSeq(read, pore_signal_region) ==
    LET move_start == First(pore_signal_region) \div read.read.model_stride
        move_end == Second(pore_signal_region) \div read.read.model_stride
    IN <<read.move_sums[move_start + 1] - 1, read.move_sums[move_end + 1]>>

possible_pore_regions(read, pore_thr) ==
    LET kept == SelectSeq(PoreSignalRegions(read, pore_thr),
                          LAMBDA sr : PoreRegionKept(read, sr))
    IN [k \in 1..Len(kept) |-> PoreRegionToSeq(read, kept[k])]

possible_pore_regions_status(read, pore_thr) ==
    IF ~build.ndebug /\ ~detect_pore_signal_assert(read.data_as_float32,
                              RawThreshold(read.read, pore_thr),
                              m_settings.pore_cl_dist, m_settings.expect_pore_prefix)
    THEN "abort" ELSE "ok"

(***************************************************************************)
(* Predicates of the split finders.                                        *)
(***************************************************************************)
\* assert(edlib_result.status == EDLIB_STATUS_OK) after a call of the aligner
edlib_status_assert ==
    IF ~build.ndebug /\ build.edlib_status # "OK" THEN "abort" ELSE "ok"

\* find_best_adapter_match() on a subrange that fails its assertion: the
\* process ends there in a build with assertions; without them the span
\* wraps around and the aligner reads outside the sequence.  On an empty
\* span the aligner is not called.
find_best_adapter_match_status(seq, subrange) ==
    IF ~SubrangeValid(seq, subrange)
    THEN (IF ~build.ndebug \/ build.ub_abort THEN "abort" ELSE "ok")
    ELSE IF Second(subrange) = First(subrange) THEN "ok"
    ELSE edlib_status_assert

\* check_rc_match(): the assertion at its head, then that on the aligner
check_rc_match_status(templ_r, compl_r, dist_thr) ==
    IF ~build.ndebug /\ ~check_rc_match_assert(templ_r, compl_r, dist_thr) THEN "abort"
    ELSE edlib_status_assert

NearbyAdapterRange(read, r) ==
    <<First(r), Min(Second(r) + m_settings.pore_adapter_range, Len(read.seq))>>

check_nearby_adapter(read, r, adapter_edist) ==
    find_best_adapter_match(m_settings.adapter, read.seq, adapter_edist,
                            NearbyAdapterRange(read, r)) # NoMatch

check_flank_match(read, r, dist_thr) ==
    /\ First(r) >= m_settings.end_flank
    /\ Second(r) + m_settings.start_flank <= Len(read.seq)
    /\ check_rc_match(read.seq,
                      <<First(r) - m_settings.end_flank, First(r) - m_settings.end_trim>>,
                      <<First(r), Second(r) + m_settings.start_flank>>,
                      dist_thr)

check_flank_match_status(read, r, dist_thr) ==
    IF /\ First(r) >= m_settings.end_flank
       /\ Second(r) + m_settings.start_flank <= Len(read.seq)
    THEN check_rc_match_status(
             <<First(r) - m_settings.end_flank, First(r) - m_settings.end_trim>>,
             <<First(r), Second(r) + m_settings.start_flank>>, dist_thr)
    ELSE "ok"

MiddleSearchRange(read) ==
    <<Len(read.seq) \div 2 - m_settings.middle_adapter_search_span \div 2,
      Len(read.seq) \div 2 + m_settings.middle_adapter_search_span \div 2>>

\* the rest of identify_extra_middle_split() once adapter_match is found
MiddleSplitAt(read, r_l, adapter_match) ==
    IF /\ adapter_match # NoMatch
       /\ check_flank_match(read, <<First(adapter_match), First(adapter_match)>>,
                            m_settings.relaxed_flank_edist)
       /\ check_rc_match(read.seq,
                         <<r_l - m_settings.end_flank, r_l - m_settings.end_trim>>,
                         <<0, m_settings.start_flank>>,
                         m_settings.relaxed_flank_edist)
    THEN <<First(adapter_match) - 1, First(adapter_match)>>
    ELSE NoMatch

identify_extra_middle_split(read) ==
    IF \/ Len(read.seq) < m_settings.end_flank + m_settings.start_flank
       \/ Len(read.seq) < m_settings.middle_adapter_search_span
    THEN NoMatch
    ELSE MiddleSplitAt(read, Len(read.seq),
             find_best_adapter_match(m_settings.adapter, read.seq,
                 m_settings.relaxed_adapter_edist, MiddleSearchRange(read)))

\* "abort" when the process ends in the rest of identify_extra_middle_split()
MiddleSplitAt_status(read, r_l, adapter_match) ==
    IF adapter_match = NoMatch THEN "ok"
    ELSE IF check_flank_match_status(read, <<First(adapter_match), First(adapter_match)>>,
                                     m_settings.relaxed_flank_edist) = "abort"
    THEN "abort"
    ELSE IF ~check_flank_match(read, <<First(adapter_match), First(adapter_match)>>,
                               m_settings.relaxed_flank_edist)
    THEN "ok"
    ELSE check_rc_match_status(<<r_l - m_settings.end_flank, r_l - m_settings.end_trim>>,
                               <<0, m_settings.start_flank>>,
                               m_settings.relaxed_flank_edist)

identify_extra_middle_split_status(read) ==
    IF \/ Len(read.seq) < m_settings.end_flank + m_settings.start_flank
       \/ Len(read.seq) < m_settings.middle_adapter_search_span
    THEN "ok"
    ELSE IF find_best_adapter_match_status(read.seq, MiddleSearchRange(read)) = "abort"
    THEN "abort"
    ELSE MiddleSplitAt_status(read, Len(read.seq),
             find_best_adapter_match(m_settings.adapter, read.seq,
                 m_settings.relaxed_adapter_edist, MiddleSearchRange(read)))

(***************************************************************************)
(* The split finders, in the order build_split_finders() registers them.   *)
(***************************************************************************)
\* build_split_finders() without the test of simplex_mode
build_split_finders_duplex ==
    <<"PORE_ADAPTER", "PORE_FLANK", "PORE_ALL", "ADAPTER_FLANK", "ADAPTER_MIDDLE">>

build_split_finders ==
    IF m_settings.simplex_mode
    THEN <<"PORE_ADAPTER">>
    ELSE <<"PORE_ADAPTER", "PORE_FLANK", "PORE_ALL", "ADAPTER_FLANK", "ADAPTER_MIDDLE">>

AdapterFlankRange(read) == <<m_settings.expect_adapter_prefix, Len(read.read.seq)>>

\* split_f(read) of the finder registered under description
SplitFinder(description, read) ==
    CASE description = "PORE_ADAPTER" ->
            LET regions == possible_pore_regions(read, m_settings.pore_thr)
            IN filter_ranges(regions,
                   [r \in Elements(regions) |->
                       check_nearby_adapter(read.read, r, m_settings.adapter_edist)])
      [] description = "PORE_FLANK" ->
            LET regions == possible_pore_regions(read, m_settings.pore_thr)
            IN merge_ranges(
                   filter_ranges(regions,
                       [r \in Elements(regions) |->
                           check_flank_match(read.read, r, m_settings.flank_edist)]),
                   m_settings.end_flank + m_settings.start_flank)
      [] description = "PORE_ALL" ->
            LET regions == possible_pore_regions(read, m_settings.relaxed_pore_thr)
            IN merge_ranges(
                   filter_ranges(regions,
                       [r \in Elements(regions) |->
                           /\ check_nearby_adapter(read.read, r, m_settings.relaxed_adapter_edist)
                           /\ check_flank_match(read.read, r, m_settings.relaxed_flank_edist)]),
                   m_settings.end_flank + m_settings.start_flank)
      [] description = "ADAPTER_FLANK" ->
            LET matches == find_adapter_matches(m_settings.adapter, read.read.seq,
                                                m_settings.adapter_edist, AdapterFlankRange(read))
            IN filter_ranges(matches,
                   [r \in Elements(matches) |->
                       check_flank_match(read.read, <<First(r), First(r)>>,
                                         m_settings.flank_edist)])
      [] description = "ADAPTER_MIDDLE" ->
            MatchAsRanges(identify_extra_middle_split(read.read))

\* "abort" when the process ends inside split_f(read)
SplitFinder_status(description, read) ==
    LET pore_thr == IF description = "PORE_ALL" THEN m_settings.relaxed_pore_thr
                    ELSE m_settings.pore_thr
        regions == possible_pore_regions(read, pore_thr)
        matches == find_adapter_matches(m_settings.adapter, read.read.seq,
                                        m_settings.adapter_edist, AdapterFlankRange(read))
        AllOk(S) == IF "abort" \in S THEN "abort" ELSE "ok"
        nearby(k) == find_best_adapter_match_status(read.read.seq,
                         NearbyAdapterRange(read.read, regions[k]))
        merged(ranges) == IF ~build.ndebug /\ ~merge_ranges_assert(ranges)
                          THEN "abort" ELSE "ok"
    IN CASE description = "PORE_ADAPTER" ->
               AllOk({possible_pore_regions_status(read, pore_thr)}
                     \cup {nearby(k) : k \in 1..Len(regions)})
         [] description = "PORE_FLANK" ->
               AllOk({possible_pore_regions_status(read, pore_thr)}
                     \cup {check_flank_match_status(read.read, regions[k],
                                                    m_settings.flank_edist) :
                           k \in 1..Len(regions)}
                     \cup {merged(filter_ranges(regions,
                               [r \in Elements(regions) |->
                                   check_flank_match(read.read, r, m_settings.flank_edist)]))})
         [] description = "PORE_ALL" ->
               AllOk({possible_pore_regions_status(read, pore_thr)}
                     \cup {nearby(k) : k \in 1..Len(regions)}
                     \cup {check_flank_match_status(read.read, regions[k],
                                                    m_settings.relaxed_flank_edist) :
                           k \in {j \in 1..Len(regions) :
                                     check_nearby_adapter(read.read, regions[j],
                                         m_settings.relaxed_adapter_edist)}}
                     \cup {merged(filter_ranges(regions,
                               [r \in Elements(regions) |->
                                   /\ check_nearby_adapter(read.read, r,
                                          m_settings.relaxed_adapter_edist)
                                   /\ check_flank_match(read.read, r,
                                          m_settings.relaxed_flank_edist)]))})
         [] description = "ADAPTER_FLANK" ->
               AllOk({find_best_adapter_match_status(read.read.seq, AdapterFlankRange(read))}
                     \cup {check_flank_match_status(read.read,
                               <<First(matches[k]), First(matches[k])>>,
                               m_settings.flank_edist) :
                           k \in 1..Len(matches)})
         [] description = "ADAPTER_MIDDLE" -> identify_extra_middle_split_status(read.read)

(***************************************************************************)
(* The body of the worker loop for one read: the rounds of split finders.  *)
(***************************************************************************)
RECURSIVE Flatten(_)
Flatten(ss) == IF ss = <<>> THEN <<>> ELSE ss[1] \o Flatten(Tail(ss))

\* the body of the loop over to_split for one read, spacers being
\* split_f(r): [abort |-> the process ended, reads |-> what the body adds to
\* split_round_result, cuts |-> the call of split() made with a spacer:
\* [finder, read, spacers]]
SplitStepOn(description, r, spacers) ==
    [abort |-> \/ SplitFinder_status(description, r) = "abort"
               \/ /\ spacers # <<>>
                  /\ \/ split_status(r.read, spacers) = "abort"
                     \/ \E sr \in Elements(split(r.read, spacers)) :
                            ExtRead_status(sr) = "abort",
     reads |-> IF spacers = <<>> THEN <<r>>
               ELSE ExtReads(split(r.read, spacers)),
     cuts |-> IF spacers = <<>> THEN <<>>
              ELSE <<[finder |-> description, read |-> r.read, spacers |-> spacers]>>]

SplitStep(description, r) == SplitStepOn(description, r, SplitFinder(description, r))

\* split_round_result of the steps made for the reads of to_split
RoundOf(steps) ==
    [abort |-> \E k \in 1..Len(steps) : steps[k].abort,
     reads |-> Flatten([k \in 1..Len(steps) |-> steps[k].reads]),
     cuts |-> Flatten([k \in 1..Len(steps) |-> steps[k].cuts])]

\* one pass of the loop over to_split for the finder description
SplitRound(description, to_split) ==
    RoundOf([k \in 1..Len(to_split) |-> SplitStep(description, to_split[k])])

\* to_split = split_round_result, the cuts of the round added to those made
SplitRoundDone(state, round) == [round EXCEPT !.cuts = state.cuts \o round.cuts]

RECURSIVE SplitRounds(_, _)
SplitRounds(split_finders, state) ==
    IF split_finders = <<>> \/ state.abort THEN state
    ELSE SplitRounds(Tail(split_finders),
                     SplitRoundDone(state, SplitRound(split_finders[1], state.reads)))

\* to_split at the end of the rounds for init_read
ProcessRead(split_finders, init_read) ==
    SplitRounds(split_finders,
                [abort |-> ExtRead_status(init_read) = "abort",
                 reads |-> <<ExtRead(init_read)>>,
                 cuts |-> <<>>])

(***************************************************************************)
(* Settings.  The thresholds and lengths are scaled down to reads of a few *)
(* bases: a one-base adapter and one-base flanks.                          *)
(***************************************************************************)
Settings(enabled, simplex_mode) ==
    [enabled |-> enabled,
     simplex_mode |-> simplex_mode,
     pore_thr |-> 1,
     relaxed_pore_thr |-> 0,
     pore_cl_dist |-> 0,
     expect_pore_prefix |-> 1,
     expect_adapter_prefix |-> 1,
     adapter |-> <<"A">>,
     adapter_edist |-> 0,
     relaxed_adapter_edist |-> 0,
     flank_edist |-> 0,
     relaxed_flank_edist |-> 0,
     end_flank |-> 1,
     start_flank |-> 1,
     end_trim |-> 0,
     pore_adapter_range |-> 1,
     middle_adapter_search_span |-> 2]

DefaultSettings == Settings(TRUE, FALSE)

(***************************************************************************)
(* Input reads.  A read satisfies the invariant of the pipeline: the move  *)
(* vector is not empty and sums to len(seq), and the signal has            *)
(* model_stride samples per move entry plus a tail shorter than a stride.  *)
(***************************************************************************)
CanonicalStartTime == [s |-> 0, ms |-> <<0, 0, 0>>]

MkRead(id, seq, qstring, moves, raw_data, stride) ==
    [read_id |-> id,
     parent_read_id |-> <<>>,
     seq |-> seq,
     qstring |-> qstring,
     moves |-> moves,
     raw_data |-> raw_data,
     model_stride |-> stride,
     sample_rate |-> 1000,
     shift |-> 0,
     scale |-> 1,
     num_trimmed_samples |-> 1,
     start_time |-> CanonicalStartTime,
     read_number |-> 7,
     carried |-> "attributes"]

MoveVectors == SeqsUpTo({0, 1}, MaxMoves) \ {<<>>}

Strides == {2}

\* the reads with the given id that can be made of the given move vectors,
\* sequences, quality characters and signals
ReadsOver(id, moves_set, seqs, quals, signals) ==
    UNION {{MkRead(id, seq, qstring, moves, raw_data, stride) :
               seq \in {s \in seqs : Len(s) = SumSeq(moves)},
               qstring \in SeqsOfLen(quals, SumSeq(moves)),
               raw_data \in {x \in signals :
                                Len(x) - Len(moves) * stride \in 0..(stride - 1)}} :
           moves \in moves_set, stride \in Strides}

\* a PosRange over [0, n]
RangesWithin(n) == {<<a, b>> : a \in 0..n, b \in 0..n} \cap {r \in (0..n) \X (0..n) : r[1] <= r[2]}

SortedDisjoint(spacers) ==
    \A k \in 1..(Len(spacers) - 1) : Second(spacers[k]) <= First(spacers[k + 1])

(***************************************************************************)
(* Messages.  A Message is a variant: a Read, a BamPtr or a ReadPair.      *)
(***************************************************************************)
ReadMessage(r) == [kind |-> "Read", tag |-> "read", body |-> <<r>>]

OtherMessages ==
    {[kind |-> "ReadPair", tag |-> "pair", body |-> <<>>],
     [kind |-> "BamPtr", tag |-> "bam", body |-> <<>>]}

(***************************************************************************)
(* The node: AsyncQueue, worker threads, destructor.                       *)
(***************************************************************************)
Workers == 1..m_num_worker_threads

WorkerIdle == [pc |-> "pop", message |-> <<>>, to_split |-> <<>>, cuts |-> <<>>]

\* the node variables of a run that never starts the node
\* the other nodes of the pipeline are not constructed
OtherNodesIdle == modbase = <<>> /\ aligner = <<>>

\* the duplex split node is not constructed
SplitNodeIdle ==
    /\ m_split_finders = <<>>
    /\ m_num_worker_threads = 0
    /\ m_work_queue = [items |-> <<>>, terminate |-> FALSE]
    /\ workers = [w \in 1..MaxWorkers |-> WorkerIdle]
    /\ m_sink = [log |-> <<>>, terminate_calls |-> 0]
    /\ dtor = [pc |-> "alive", joined |-> 0]
    /\ aborted = FALSE
    /\ upstream = <<>>
    /\ accepted = <<>>

NodeIdle == OtherNodesIdle /\ SplitNodeIdle

\* the state after the constructor, for the given settings and input stream
NodeConstructed(num_worker_threads, stream) ==
    /\ OtherNodesIdle
    /\ m_split_finders = build_split_finders
    /\ m_num_worker_threads = num_worker_threads
    /\ m_work_queue = [items |-> <<>>, terminate |-> FALSE]
    /\ workers = [w \in 1..MaxWorkers |-> WorkerIdle]
    /\ m_sink = [log |-> <<>>, terminate_calls |-> 0]
    /\ dtor = [pc |-> "alive", joined |-> 0]
    /\ aborted = FALSE
    /\ upstream = stream
    /\ accepted = <<>>

\* MessageSink::push_message by the upstream node: blocks while the queue
\* is full; the upstream node pushes nothing once the destructor has begun
UpstreamPush ==
    /\ ~aborted
    /\ upstream # <<>>
    /\ ~m_work_queue.terminate
    /\ Len(m_work_queue.items) < MaxQueue
    /\ m_work_queue' = [m_work_queue EXCEPT !.items = Append(@, Head(upstream))]
    /\ accepted' = Append(accepted, Head(upstream))
    /\ upstream' = Tail(upstream)
    /\ UNCHANGED <<othernodes, m_settings, build, m_split_finders, m_num_worker_threads, workers,
                   m_sink, dtor, aborted, fnvars>>

\* try_pop returned a message
Popped(w) ==
    /\ ~aborted
    /\ w \in Workers
    /\ workers[w].pc = "pop"
    /\ m_work_queue.items # <<>>
    /\ m_work_queue' = [m_work_queue EXCEPT !.items = Tail(@)]

\* worker_thread, settings.enabled false: the message goes to the sink as is
PopDisabled(w) ==
    /\ Popped(w)
    /\ ~m_settings.enabled
    /\ workers' = [workers EXCEPT ![w] =
           [pc |-> "forward", message |-> Head(m_work_queue.items), to_split |-> <<>>,
            cuts |-> <<>>]]
    /\ UNCHANGED <<othernodes, m_settings, build, m_split_finders, m_num_worker_threads, m_sink, dtor,
                   aborted, upstream, accepted, fnvars>>

\* worker_thread, enabled, the message is not a Read: std::get throws
\* bad_variant_access, nothing catches it, the process is terminated
PopNotRead(w) ==
    /\ Popped(w)
    /\ m_settings.enabled
    /\ Head(m_work_queue.items).kind # "Read"
    /\ aborted' = TRUE
    /\ workers' = [workers EXCEPT ![w] =
           [pc |-> "thrown", message |-> Head(m_work_queue.items), to_split |-> <<>>,
            cuts |-> <<>>]]
    /\ UNCHANGED <<othernodes, m_settings, build, m_split_finders, m_num_worker_threads, m_sink, dtor,
                   upstream, accepted, fnvars>>

\* worker_thread, enabled, a Read: the rounds of split finders
PopRead(w) ==
    /\ Popped(w)
    /\ m_settings.enabled
    /\ Head(m_work_queue.items).kind = "Read"
    /\ \E result \in {ProcessRead(m_split_finders, Head(m_work_queue.items).body[1])} :
           /\ aborted' = result.abort
           /\ workers' = [workers EXCEPT ![w] =
                  IF result.abort
                  THEN [pc |-> "aborted", message |-> Head(m_work_queue.items),
                        to_split |-> <<>>, cuts |-> result.cuts]
                  ELSE IF result.reads = <<>> THEN WorkerIdle
                  ELSE [pc |-> "push", message |-> Head(m_work_queue.items),
                        to_split |-> result.reads, cuts |-> result.cuts]]
    /\ UNCHANGED <<othernodes, m_settings, build, m_split_finders, m_num_worker_threads, m_sink, dtor,
                   upstream, accepted, fnvars>>

\* the disabled branch pushing the message after it was moved from: the
\* sink gets an empty message
ForwardMoved(w) ==
    /\ ~aborted
    /\ w \in Workers
    /\ workers[w].pc = "forward"
    /\ m_sink' = [m_sink EXCEPT !.log = Append(@,
           [message |-> [workers[w].message EXCEPT !.body = <<>>, !.tag = "moved"],
            worker |-> w, input |-> workers[w].message,
            rest |-> 0, cuts |-> <<>>, after_terminate |-> m_sink.terminate_calls > 0])]
    /\ workers' = [workers EXCEPT ![w] = WorkerIdle]
    /\ UNCHANGED <<othernodes, m_settings, build, m_split_finders, m_num_worker_threads, m_work_queue,
                   dtor, aborted, upstream, accepted, fnvars>>

\* m_sink.push_message(std::move(message)) of the disabled branch
Forward(w) ==
    /\ ~aborted
    /\ w \in Workers
    /\ workers[w].pc = "forward"
    /\ m_sink' = [m_sink EXCEPT !.log = Append(@,
           [message |-> workers[w].message, worker |-> w, input |-> workers[w].message,
            rest |-> 0, cuts |-> <<>>, after_terminate |-> m_sink.terminate_calls > 0])]
    /\ workers' = [workers EXCEPT ![w] = WorkerIdle]
    /\ UNCHANGED <<othernodes, m_settings, build, m_split_finders, m_num_worker_threads, m_work_queue,
                   dtor, aborted, upstream, accepted, fnvars>>

\* the final loop without the assignment of parent_read_id
Unstamped(ext, init_read) == ext.read

\* the final loop treating every read as subread() treats a child
StampedAsSubread(ext, init_read) ==
    [ext.read EXCEPT !.parent_read_id = init_read.read_id,
                     !.read_number = ReadNumberUnknown]

\* the read of the final loop, with its parent_read_id assigned
Stamped(ext, init_read) == [ext.read EXCEPT !.parent_read_id = init_read.read_id]

\* the final loop running over to_split from its back
PushSubreadFromBack(w) ==
    /\ ~aborted
    /\ w \in Workers
    /\ workers[w].pc = "push"
    /\ workers[w].to_split # <<>>
    /\ LET n == Len(workers[w].to_split)
       IN /\ m_sink' = [m_sink EXCEPT !.log = Append(@,
                 [message |-> ReadMessage([workers[w].to_split[n].read EXCEPT
                                  !.parent_read_id = workers[w].message.body[1].read_id]),
                  worker |-> w, input |-> workers[w].message,
                  rest |-> n - 1, cuts |-> workers[w].cuts,
                  after_terminate |-> m_sink.terminate_calls > 0])]
          /\ workers' = [workers EXCEPT ![w] =
                 IF n = 1 THEN WorkerIdle
                 ELSE [@ EXCEPT !.to_split = SubSeq(@, 1, n - 1)]]
    /\ UNCHANGED <<othernodes, m_settings, build, m_split_finders, m_num_worker_threads, m_work_queue,
                   dtor, aborted, upstream, accepted, fnvars>>

\* one iteration of the final loop over to_split
PushSubread(w) ==
    /\ ~aborted
    /\ w \in Workers
    /\ workers[w].pc = "push"
    /\ workers[w].to_split # <<>>
    /\ m_sink' = [m_sink EXCEPT !.log = Append(@,
           [message |-> ReadMessage(Stamped(Head(workers[w].to_split),
                                            workers[w].message.body[1])),
            worker |-> w, input |-> workers[w].message,
            rest |-> Len(workers[w].to_split) - 1, cuts |-> workers[w].cuts,
            after_terminate |-> m_sink.terminate_calls > 0])]
    /\ workers' = [workers EXCEPT ![w] =
           IF Tail(workers[w].to_split) = <<>> THEN WorkerIdle
           ELSE [@ EXCEPT !.to_split = Tail(@)]]
    /\ UNCHANGED <<othernodes, m_settings, build, m_split_finders, m_num_worker_threads, m_work_queue,
                   dtor, aborted, upstream, accepted, fnvars>>

\* a try_pop that returns false as soon as the queue is terminated
WorkerExitInterrupted(w) ==
    /\ ~aborted
    /\ w \in Workers
    /\ workers[w].pc = "pop"
    /\ m_work_queue.terminate
    /\ workers' = [workers EXCEPT ![w].pc = "exited"]
    /\ UNCHANGED <<othernodes, m_settings, build, m_split_finders, m_num_worker_threads, m_work_queue,
                   m_sink, dtor, aborted, upstream, accepted, fnvars>>

\* try_pop returned false: the queue is terminated and has no item left
WorkerExit(w) ==
    /\ ~aborted
    /\ w \in Workers
    /\ workers[w].pc = "pop"
    /\ m_work_queue.items = <<>>
    /\ m_work_queue.terminate
    /\ workers' = [workers EXCEPT ![w].pc = "exited"]
    /\ UNCHANGED <<othernodes, m_settings, build, m_split_finders, m_num_worker_threads, m_work_queue,
                   m_sink, dtor, aborted, upstream, accepted, fnvars>>

\* ~DuplexSplitNode: terminate()
DtorTerminate ==
    /\ ~aborted
    /\ dtor.pc = "alive"
    /\ m_work_queue' = [m_work_queue EXCEPT !.terminate = TRUE]
    /\ dtor' = [dtor EXCEPT !.pc = "join"]
    /\ UNCHANGED <<othernodes, m_settings, build, m_split_finders, m_num_worker_threads, workers,
                   m_sink, aborted, upstream, accepted, fnvars>>

\* a destructor that does not wait for the worker threads
JoinReturnsAtOnce(w) == w \in Workers

\* whether join() of worker w returns
JoinReturns(w) == workers[w].pc = "exited"

\* ~DuplexSplitNode: t->join() of the next worker thread
DtorJoin ==
    /\ ~aborted
    /\ dtor.pc = "join"
    /\ dtor.joined < m_num_worker_threads
    /\ JoinReturns(dtor.joined + 1)
    /\ dtor' = [dtor EXCEPT !.joined = @ + 1]
    /\ UNCHANGED <<othernodes, m_settings, build, m_split_finders, m_num_worker_threads, m_work_queue,
                   workers, m_sink, aborted, upstream, accepted, fnvars>>

\* ~DuplexSplitNode: m_sink.terminate()
DtorTerminateSink ==
    /\ ~aborted
    /\ dtor.pc = "join"
    /\ dtor.joined = m_num_worker_threads
    /\ m_sink' = [m_sink EXCEPT !.terminate_calls = @ + 1]
    /\ dtor' = [dtor EXCEPT !.pc = "done"]
    /\ UNCHANGED <<othernodes, m_settings, build, m_split_finders, m_num_worker_threads, m_work_queue,
                   workers, aborted, upstream, accepted, fnvars>>

(***************************************************************************)
(* Harness for the cut operation: one call of split() on a read and a      *)
(* spacer list inside the read.                                            *)
(***************************************************************************)
HarnessBases == {"A", "C"}

HarnessQuals == {"!", "5"}

HarnessReads ==
    ReadsOver(<<"r", 1>>, MoveVectors, SeqsUpTo(HarnessBases, MaxMoves), HarnessQuals,
              SeqsUpTo({0}, 2 * MaxMoves + 1))

HarnessSpacers(read) ==
    {s \in SeqsUpTo(RangesWithin(Len(read.seq)), MaxSpacers) : s # <<>> /\ SortedDisjoint(s)}

SplitInit ==
    /\ fn_pc = "in"
    /\ fn_read \in HarnessReads
    /\ fn_spacers \in HarnessSpacers(fn_read)
    /\ fn_args = <<>>
    /\ build \in Builds
    /\ m_settings = DefaultSettings
    /\ fn_out = <<>>
    /\ NodeIdle

CallSplit ==
    /\ fn_pc = "in"
    /\ fn_pc' = "out"
    /\ fn_out' = [status |-> split_status(fn_read, fn_spacers),
                  calls |-> SplitCalls(fn_read, fn_spacers),
                  subreads |-> split(fn_read, fn_spacers)]
    /\ UNCHANGED <<othernodes, m_settings, build, nodevars, fn_read, fn_spacers, fn_args>>

SplitNext == CallSplit

SpecSplit == SplitInit /\ [][SplitNext]_vars

(***************************************************************************)
(* Input streams of the node: up to MaxMessages messages, the i-th a Read  *)
(* with id <<"r", i>>, a ReadPair or a BamPtr.                             *)
(***************************************************************************)
StreamSeqs == {<<"C", "A", "C">>, <<"C", "C", "C">>, <<"T", "A">>}

StreamSignals == {<<0, 0, 0, 0, 0, 0>>, <<0, 0, 2, 0, 0, 0>>, <<0, 0, 0, 0>>}

StreamReads(i) ==
    ReadsOver(<<"r", i>>, {<<1, 1>>, <<1, 1, 1>>}, StreamSeqs, {"!"}, StreamSignals)

StreamMessages(i) == {ReadMessage(r) : r \in StreamReads(i)} \cup OtherMessages

RECURSIVE StreamsOfLen(_)
StreamsOfLen(n) ==
    IF n = 0 THEN {<<>>}
    ELSE {Append(s, m) : s \in StreamsOfLen(n - 1), m \in StreamMessages(n)}

InputStreams == UNION {StreamsOfLen(n) : n \in 0..MaxMessages}

(***************************************************************************)
(* The node on an input stream.                                            *)
(***************************************************************************)
FnIdle ==
    /\ fn_pc = "idle"
    /\ fn_read = <<>>
    /\ fn_spacers = <<>>
    /\ fn_args = <<>>
    /\ fn_out = <<>>

Init ==
    /\ m_settings \in {Settings(e, s) : e \in BOOLEAN, s \in BOOLEAN}
    /\ build \in Builds
    /\ \E n \in 1..MaxWorkers, stream \in InputStreams : NodeConstructed(n, stream)
    /\ FnIdle

Next ==
    \/ UpstreamPush
    \/ \E w \in 1..MaxWorkers : PopDisabled(w)
    \/ \E w \in 1..MaxWorkers : PopNotRead(w)
    \/ \E w \in 1..MaxWorkers : PopRead(w)
    \/ \E w \in 1..MaxWorkers : Forward(w)
    \/ \E w \in 1..MaxWorkers : PushSubread(w)
    \/ \E w \in 1..MaxWorkers : WorkerExit(w)
    \/ DtorTerminate
    \/ DtorJoin
    \/ DtorTerminateSink

Spec == Init /\ [][Next]_vars

(***************************************************************************)
(* The node with one worker on one read, up to the last push to the sink,  *)
(* over all reads of up to MaxMoves move entries whose signal has at most  *)
(* MaxHigh samples above level 0.                                          *)
(***************************************************************************)
WideBases == {"A", "T"}

WideLevels == {0, 2}

WideSignals ==
    {x \in SeqsUpTo(WideLevels, 2 * MaxMoves + 1) :
        Cardinality({k \in DOMAIN x : x[k] > 0}) <= MaxHigh}

WideReads ==
    ReadsOver(<<"r", 1>>, MoveVectors, SeqsUpTo(WideBases, MaxMoves), {"!"}, WideSignals)

WideInit ==
    /\ m_settings \in {Settings(TRUE, s) : s \in BOOLEAN}
    /\ build \in Builds
    /\ \E r \in WideReads : NodeConstructed(1, <<ReadMessage(r)>>)
    /\ FnIdle

WideNext ==
    \/ UpstreamPush
    \/ PopRead(1)
    \/ PushSubread(1)

SpecWide == WideInit /\ [][WideNext]_vars

(***************************************************************************)
(* Properties of the cut operation.                                        *)
(***************************************************************************)
\* the sequence range a child was cut from, read off its derived id
SeqRangeOf(child) ==
    <<child.read_id[Len(child.read_id) - 1], child.read_id[Len(child.read_id)]>>

InRange(p, r) == First(r) <= p /\ p < Second(r)

\* how many ranges of the list contain position p
RECURSIVE CoverCount(_, _)
CoverCount(p, ranges) ==
    IF ranges = <<>> THEN 0
    ELSE (IF InRange(p, ranges[1]) THEN 1 ELSE 0) + CoverCount(p, Tail(ranges))

SplitReturned == fn_pc = "out" /\ fn_out.status = "ok"

\* C1: after split() on a sorted, pairwise-disjoint, non-empty spacer list,
\* child k is the part of the parent's sequence between the end of spacer
\* k-1 (0 for the first child) and the start of spacer k (len(seq) for the
\* last child), and every position of [0, len(seq)) lies in exactly one
\* child range or spacer range.
C1_SeqPartition ==
    SplitReturned =>
        LET subreads == fn_out.subreads
            n == Len(fn_spacers)
            child_ranges == [k \in 1..Len(subreads) |-> SeqRangeOf(subreads[k])]
        IN /\ Len(subreads) = n + 1
           /\ \A k \in 1..(n + 1) :
                 /\ First(child_ranges[k]) = IF k = 1 THEN 0 ELSE Second(fn_spacers[k - 1])
                 /\ Second(child_ranges[k]) =
                        IF k = n + 1 THEN Len(fn_read.seq) ELSE First(fn_spacers[k])
                 /\ subreads[k].seq = Slice(fn_read.seq, First(child_ranges[k]),
                                            Second(child_ranges[k]))
           /\ \A p \in 0..(Len(fn_read.seq) - 1) :
                 CoverCount(p, child_ranges \o fn_spacers) = 1

C1_Witness ==
    /\ SplitReturned
    /\ Len(fn_spacers) = 2
    /\ Len(fn_out.subreads) = 3
    /\ First(fn_spacers[1]) > 0
    /\ Second(fn_spacers[1]) > First(fn_spacers[1])
    /\ Len(fn_out.subreads[1].seq) > 0

\* the signal range of a spacer: seq_to_sig[q0] .. seq_to_sig[q1]
SpacerSignalRange(read, r) ==
    LET seq_to_sig_map == moves_to_map(read.moves, read.model_stride, Len(read.raw_data))
    IN <<MapAt(seq_to_sig_map, First(r)), MapAt(seq_to_sig_map, Second(r))>>

\* C2: after split(), every sample of [0, len(signal)) lies in exactly one
\* child signal range or spacer signal range.
C2_SignalCoverage ==
    SplitReturned =>
        LET child_ranges == [k \in 1..Len(fn_out.calls) |-> fn_out.calls[k][2]]
            spacer_ranges == [k \in 1..Len(fn_spacers) |->
                                 SpacerSignalRange(fn_read, fn_spacers[k])]
        IN \A p \in 0..(Len(fn_read.raw_data) - 1) :
               CoverCount(p, child_ranges \o spacer_ranges) = 1

\* the same, for reads whose first move entry is 1
C2_SignalCoverageFirstMove ==
    (SplitReturned /\ fn_read.moves[1] = 1) =>
        LET child_ranges == [k \in 1..Len(fn_out.calls) |-> fn_out.calls[k][2]]
            spacer_ranges == [k \in 1..Len(fn_spacers) |->
                                 SpacerSignalRange(fn_read, fn_spacers[k])]
        IN \A p \in 0..(Len(fn_read.raw_data) - 1) :
               CoverCount(p, child_ranges \o spacer_ranges) = 1

RaggedTail(read) == Len(read.raw_data) % read.model_stride # 0

LengthCoherent(parent, child, is_last) ==
    /\ Len(child.seq) = Len(child.qstring)
    /\ SumSeq(child.moves) = Len(child.seq)
    /\ \/ is_last /\ RaggedTail(parent)
       \/ Len(child.moves) * parent.model_stride = Len(child.raw_data)

\* the children of one cut a worker made are coherent with their parent
CutCoherent(cut) ==
    LET children == split(cut.read, cut.spacers)
    IN SumSeq(cut.read.moves) = Len(cut.read.seq) =>
           \A k \in 1..Len(children) :
               LengthCoherent(cut.read, children[k], k = Len(children))

\* C3: every child that subread() made for a worker, from a parent with
\* sum(moves) = len(seq), has len(seq) = len(qstring), sum(moves) = len(seq),
\* and len(moves) * stride = len(raw_signal) unless it is the last child of
\* a parent whose signal has a ragged tail.
C3_LengthCoherence ==
    \A w \in 1..MaxWorkers :
        workers[w].pc = "push" =>
            \A k \in 1..Len(workers[w].cuts) : CutCoherent(workers[w].cuts[k])

\* a worker cut a read with a ragged tail in three and every child is coherent
C3_Witness ==
    \E w \in 1..MaxWorkers :
        /\ workers[w].pc = "push"
        /\ \E k \in 1..Len(workers[w].cuts) :
               /\ RaggedTail(workers[w].cuts[k].read)
               /\ Len(workers[w].cuts[k].spacers) = 2
               /\ CutCoherent(workers[w].cuts[k])

(***************************************************************************)
(* Properties of the node.                                                 *)
(***************************************************************************)
LogMessages == [k \in 1..Len(m_sink.log) |-> m_sink.log[k].message]

\* the messages of a sequence that equal m
Count(m, messages) == Cardinality({k \in 1..Len(messages) : messages[k] = m})

\* the workers that have taken m and not yet handed it on
HeldCount(m) == Cardinality({w \in Workers : workers[w].pc = "forward" /\ workers[w].message = m})

\* nothing is on its way through the node
Quiescent ==
    /\ ~aborted
    /\ m_work_queue.items = <<>>
    /\ \A w \in Workers : workers[w].pc \in {"pop", "exited"}

IsPrefix(s, t) == Len(s) <= Len(t) /\ \A k \in 1..Len(s) : s[k] = t[k]

Taken == SubSeq(accepted, 1, Len(accepted) - Len(m_work_queue.items))

\* C5: with the node enabled, a message that is not a Read and that a worker
\* took from the queue has been pushed to the sink as it was, and the node
\* goes on.
C5_NonReadForwarded ==
    m_settings.enabled =>
        \A k \in 1..Len(Taken) :
            Taken[k].kind # "Read" =>
                /\ ~aborted
                /\ \E j \in 1..Len(m_sink.log) : m_sink.log[j].message = Taken[k]

\* C6: the destructor calls terminate() on the sink once, after every worker
\* thread has left its loop, and no message is pushed to a terminated sink.
C6_SinkTerminatedOnce ==
    /\ m_sink.terminate_calls <= 1
    /\ dtor.pc = "done" <=> m_sink.terminate_calls = 1
    /\ m_sink.terminate_calls > 0 => \A w \in Workers : workers[w].pc = "exited"
    /\ \A k \in 1..Len(m_sink.log) : ~m_sink.log[k].after_terminate

\* the destructor ran to its end on a node whose two workers both pushed
C6_Witness ==
    /\ dtor.pc = "done"
    /\ m_num_worker_threads = 2
    /\ \E j, k \in 1..Len(m_sink.log) : m_sink.log[j].worker # m_sink.log[k].worker

\* the pushes of worker w, in order
PushesOf(w) == SelectSeq(m_sink.log, LAMBDA e : e.worker = w)

\* where a subread starts in the input read: the sum of the range starts
\* along the derivation of its id
RECURSIVE AbsStart(_)
AbsStart(id) == IF Len(id) <= 2 THEN 0 ELSE id[Len(id) - 1] + AbsStart(SubSeq(id, 1, Len(id) - 2))

C8_ParentReadId ==
    m_settings.enabled =>
        \A k \in 1..Len(m_sink.log) :
            m_sink.log[k].message.kind = "Read" =>
                m_sink.log[k].message.body[1].parent_read_id
                    = m_sink.log[k].input.body[1].read_id

\* a subread that two rounds cut out of the input is in the sink
C8_Witness ==
    /\ m_settings.enabled
    /\ \E k \in 1..Len(m_sink.log) :
           /\ Len(m_sink.log[k].message.body[1].read_id) = 6
           /\ Len(m_sink.log[k].cuts) >= 2
           /\ m_sink.log[k].message.body[1].seq # <<>>

\* the worker of the one-read run has pushed everything made from the read
ReadDone ==
    /\ ~aborted
    /\ accepted # <<>>
    /\ m_work_queue.items = <<>>
    /\ workers[1].pc = "pop"

\* C9: when no finder returned a spacer for the input read, the node pushes
\* one Read for it, which is the input read with parent_read_id set to its
\* read_id and nothing else changed.
C9_NoCutIdentity ==
    /\ ReadDone => m_sink.log # <<>>
    /\ \A k \in 1..Len(m_sink.log) :
           m_sink.log[k].cuts = <<>> =>
               /\ Len(m_sink.log) = 1
               /\ m_sink.log[k].rest = 0
               /\ m_sink.log[k].message =
                      ReadMessage([m_sink.log[k].input.body[1] EXCEPT
                                      !.parent_read_id = m_sink.log[k].input.body[1].read_id])

\* all five finders ran on a read with signal above the pore threshold and
\* none returned a spacer
C9_Witness ==
    /\ ReadDone
    /\ ~m_settings.simplex_mode
    /\ Len(m_sink.log) = 1
    /\ m_sink.log[1].cuts = <<>>
    /\ \E k \in 1..Len(m_sink.log[1].input.body[1].raw_data) :
           m_sink.log[1].input.body[1].raw_data[k] > m_settings.pore_thr
    /\ Len(m_sink.log[1].input.body[1].seq) = 3

\* C10: with simplex_mode set the list of finders is PORE_ADAPTER alone, and
\* the reads pushed for an input read are those that the rounds of
\* PORE_ADAPTER alone make of it.
C10_SimplexPoreAdapterOnly ==
    m_settings.simplex_mode =>
        /\ m_split_finders = <<"PORE_ADAPTER">>
        /\ \A k \in 1..Len(m_sink.log) :
               \A c \in 1..Len(m_sink.log[k].cuts) :
                   m_sink.log[k].cuts[c].finder = "PORE_ADAPTER"
        /\ ReadDone =>
               LET init_read == accepted[1].body[1]
                   alone == ProcessRead(<<"PORE_ADAPTER">>, init_read).reads
               IN LogMessages = [k \in 1..Len(alone) |->
                                    ReadMessage(Stamped(alone[k], init_read))]

\* in simplex mode a read was cut by PORE_ADAPTER that the five finders
\* together cut differently
C10_Witness ==
    /\ m_settings.simplex_mode
    /\ ReadDone
    /\ Len(m_sink.log) >= 2
    /\ LET all == ProcessRead(<<"PORE_ADAPTER", "PORE_FLANK", "PORE_ALL", "ADAPTER_FLANK",
                                "ADAPTER_MIDDLE">>, accepted[1].body[1])
       IN ~all.abort /\ Len(all.reads) # Len(m_sink.log)

(***************************************************************************)
(* The order of the strategies.                                            *)
(***************************************************************************)
\* the finders registered before description
FindersBefore(description) ==
    SelectSeq(m_split_finders,
              LAMBDA d : \E i, j \in 1..Len(m_split_finders) :
                             /\ m_split_finders[i] = d
                             /\ m_split_finders[j] = description
                             /\ i < j)

\* to_split when the loop over m_split_finders comes to description: the
\* reads that split_f of description is called on
AppliedTo(description, init_read) ==
    ProcessRead(FindersBefore(description), init_read).reads

\* the worker has run the five strategies on the read it holds
RanMiddle(w) ==
    /\ workers[w].pc = "push"
    /\ \E i \in 1..Len(m_split_finders) : m_split_finders[i] = "ADAPTER_MIDDLE"

\* C11: ADAPTER_MIDDLE is applied to a read only when every prior strategy
\* produced no spacer for the input read, never to a subread of an earlier
\* cut: the reads it is called on are the input read alone.
C11_MiddleOnlyAfterAllFailed ==
    \A w \in 1..MaxWorkers :
        RanMiddle(w) =>
            AppliedTo("ADAPTER_MIDDLE", workers[w].message.body[1])
                = <<ExtRead(workers[w].message.body[1])>>

(***************************************************************************)
(* The timestamp functions and subread() called on their own, on a machine *)
(* whose local time is UTC or an hour ahead of it.                         *)
(***************************************************************************)
MaxTimeMoves == 5

\* canonical timestamps: the millisecond field has three digits
TimeStamps ==
    [s : {3600, 3601, 86399},
     ms : {<<0, 0, 0>>, <<0, 0, 5>>, <<0, 5, 0>>, <<4, 5, 6>>, <<9, 9, 9>>}]

\* millisecond counts since the epoch
TimeCounts == {t.s * 1000 + stoi(t.ms) : t \in TimeStamps}

\* reads of MaxTimeMoves bases, one move entry and one stride of signal each
TimeReads ==
    {[MkRead(<<"r", 1>>, [k \in 1..MaxTimeMoves |-> "A"], [k \in 1..MaxTimeMoves |-> "!"],
             [k \in 1..MaxTimeMoves |-> 1], [k \in 1..(2 * MaxTimeMoves) |-> 0], 2)
         EXCEPT !.start_time = t, !.sample_rate = rate, !.num_trimmed_samples = trimmed] :
     t \in TimeStamps, rate \in {4, 1000, 4000}, trimmed \in {0, 1}}

TimeCalls ==
    {[fn |-> "format", time_stamp_ms |-> n] : n \in TimeCounts}
    \cup {[fn |-> "parse", time_stamp |-> t] : t \in TimeStamps}
    \cup {[fn |-> "subread", read |-> r, seq_range |-> <<k, MaxTimeMoves>>,
           signal_range |-> <<2 * k, 2 * MaxTimeMoves>>] :
          r \in TimeReads, k \in 0..MaxTimeMoves}

TimeInit ==
    /\ fn_pc = "in"
    /\ fn_args \in TimeCalls
    /\ build \in [ndebug : {TRUE}, ub_abort : {FALSE}, utc_offset : {0, 3600},
                  edlib_status : {"OK"}]
    /\ m_settings = DefaultSettings
    /\ fn_read = <<>>
    /\ fn_spacers = <<>>
    /\ fn_out = <<>>
    /\ NodeIdle

CallFormat ==
    /\ fn_pc = "in"
    /\ fn_args.fn = "format"
    /\ fn_pc' = "out"
    /\ fn_out' = get_string_timestamp_from_unix_time(fn_args.time_stamp_ms)
    /\ UNCHANGED <<othernodes, m_settings, build, nodevars, fn_read, fn_spacers, fn_args>>

CallParse ==
    /\ fn_pc = "in"
    /\ fn_args.fn = "parse"
    /\ fn_pc' = "out"
    /\ fn_out' = get_unix_time_from_string_timestamp(fn_args.time_stamp)
    /\ UNCHANGED <<othernodes, m_settings, build, nodevars, fn_read, fn_spacers, fn_args>>

CallSubread ==
    /\ fn_pc = "in"
    /\ fn_args.fn = "subread"
    /\ fn_pc' = "out"
    /\ fn_out' = subread(fn_args.read, fn_args.seq_range, fn_args.signal_range)
    /\ UNCHANGED <<othernodes, m_settings, build, nodevars, fn_read, fn_spacers, fn_args>>

TimeNext == CallFormat \/ CallParse \/ CallSubread

SpecTime == TimeInit /\ [][TimeNext]_vars

\* the canonical rendering of a millisecond count since the epoch: UTC, the
\* millisecond field of three digits
CanonicalTimestamp(t) ==
    [s |-> t \div 1000,
     ms |-> <<(t % 1000) \div 100, ((t % 1000) \div 10) % 10, t % 10>>]

\* the millisecond count a timestamp with the "+00:00" tail names
CountNamed(time_stamp) == time_stamp.s * 1000 + stoi(time_stamp.ms)

\* C12: a child made by subread() with signal start s0 has the start_time of
\* the parent advanced by (num_trimmed_samples + s0) * 1000 / sample_rate
\* milliseconds, rendered with a three-digit millisecond field and the
\* "+00:00" tail, and has num_trimmed_samples = 0.
C12_ChildStartTime ==
    (fn_pc = "out" /\ fn_args.fn = "subread") =>
        /\ fn_out.start_time =
               CanonicalTimestamp(
                   CountNamed(fn_args.read.start_time)
                   + ((fn_args.read.num_trimmed_samples + First(fn_args.signal_range)) * 1000)
                         \div fn_args.read.sample_rate)
        /\ fn_out.num_trimmed_samples = 0

\* the child's time is the parent's advanced by the offset and
\* num_trimmed_samples is 0, where local time is UTC and the millisecond
\* field is read as a number
C12_ChildStartTimeUtcCount ==
    (fn_pc = "out" /\ fn_args.fn = "subread" /\ build.utc_offset = 0) =>
        /\ CountNamed(fn_out.start_time) =
               CountNamed(fn_args.read.start_time)
               + ((fn_args.read.num_trimmed_samples + First(fn_args.signal_range)) * 1000)
                     \div fn_args.read.sample_rate
        /\ fn_out.num_trimmed_samples = 0

\* C13: formatting the parse of a canonical timestamp returns the same
\* string, and parsing the format of a millisecond count returns the same
\* count.
C13_TimestampRoundTrip ==
    /\ (fn_pc = "out" /\ fn_args.fn = "parse") =>
           get_string_timestamp_from_unix_time(fn_out) = fn_args.time_stamp
    /\ (fn_pc = "out" /\ fn_args.fn = "format") =>
           get_unix_time_from_string_timestamp(fn_out) = fn_args.time_stamp_ms

\* where local time is UTC, parsing the format of a count returns the count
C13_ParseOfFormatUtc ==
    (fn_pc = "out" /\ fn_args.fn = "format" /\ build.utc_offset = 0) =>
        get_unix_time_from_string_timestamp(fn_out) = fn_args.time_stamp_ms

(***************************************************************************)
(* derive_uuid() after SHA256_Final: the digest is the 32 bytes hash[0..31] *)
(* (here hash[1..32]); the UUID string is a sequence of characters.        *)
(***************************************************************************)
HexDigits == <<"0", "1", "2", "3", "4", "5", "6", "7", "8", "9", "a", "b", "c", "d", "e", "f">>

\* std::hex << std::setw(2) << std::setfill('0') << int(byte)
HexByte(byte) == <<HexDigits[(byte \div 16) + 1], HexDigits[(byte % 16) + 1]>>

\* the first 16 bytes of the digest
truncated_hash(hash) == SubSeq(hash, 1, 16)

\* the version nibble left as the digest has it
SetVersionKept(bytes) == bytes

\* truncated_hash[6] = (truncated_hash[6] & 0x0F) | 0x40
SetVersion(bytes) == [bytes EXCEPT ![7] = (bytes[7] % 16) + 64]

\* truncated_hash[8] = (truncated_hash[8] & 0x3F) | 0x80
SetVariant(bytes) == [bytes EXCEPT ![9] = (bytes[9] % 64) + 128]

RECURSIVE UuidString(_, _)
UuidString(bytes, i) ==
    IF i >= Len(bytes) THEN <<>>
    ELSE HexByte(bytes[i + 1])
         \o (IF i \in {3, 5, 7, 9} THEN <<"-">> ELSE <<>>)
         \o UuidString(bytes, i + 1)

uuid_of_hash(hash) == UuidString(SetVariant(SetVersion(truncated_hash(hash))), 0)

\* digests: bytes 6 and 8 over values with every pattern of high bits, the
\* other bytes one of two fillings
UuidHashes ==
    {[i \in 1..32 |-> IF i = 7 THEN b6 ELSE IF i = 9 THEN b8
                      ELSE IF fill = 0 THEN (7 * i) % 256 ELSE 255 - i] :
     b6 \in {0, 15, 74, 79, 160, 255}, b8 \in {0, 63, 64, 128, 191, 255}, fill \in {0, 1}}

UuidInit ==
    /\ fn_pc = "in"
    /\ fn_args \in {[fn |-> "derive_uuid", hash |-> h] : h \in UuidHashes}
    /\ build \in Builds
    /\ m_settings = DefaultSettings
    /\ fn_read = <<>>
    /\ fn_spacers = <<>>
    /\ fn_out = <<>>
    /\ NodeIdle

CallDeriveUuid ==
    /\ fn_pc = "in"
    /\ fn_args.fn = "derive_uuid"
    /\ fn_pc' = "out"
    /\ fn_out' = uuid_of_hash(fn_args.hash)
    /\ UNCHANGED <<othernodes, m_settings, build, nodevars, fn_read, fn_spacers, fn_args>>

SpecUuid == UuidInit /\ [][CallDeriveUuid]_vars

\* the value of a lowercase hex digit, -1 for any other character
HexValue(c) ==
    IF \E v \in 1..16 : HexDigits[v] = c
    THEN (CHOOSE v \in 1..16 : HexDigits[v] = c) - 1
    ELSE -1

\* where byte i (from 0) starts in the 8-4-4-4-12 form, from 1
UuidByteAt(i) ==
    2 * i + 1 + (IF i > 3 THEN 1 ELSE 0) + (IF i > 5 THEN 1 ELSE 0)
              + (IF i > 7 THEN 1 ELSE 0) + (IF i > 9 THEN 1 ELSE 0)

\* byte i (from 0) as the string has it
UuidByte(uuid, i) == 16 * HexValue(uuid[UuidByteAt(i)]) + HexValue(uuid[UuidByteAt(i) + 1])

\* C14: for every digest the result is a string of 36 characters, lowercase
\* hex in the form 8-4-4-4-12, whose byte 6 has the high nibble 4 and whose
\* byte 8 has the two high bits 10, every other bit being that of the first
\* 16 bytes of the digest.
C14_DerivedUuidForm ==
    (fn_pc = "out" /\ fn_args.fn = "derive_uuid") =>
        /\ Len(fn_out) = 36
        /\ \A p \in 1..36 :
               IF p \in {9, 14, 19, 24} THEN fn_out[p] = "-" ELSE HexValue(fn_out[p]) >= 0
        /\ UuidByte(fn_out, 6) \div 16 = 4
        /\ UuidByte(fn_out, 6) % 16 = fn_args.hash[7] % 16
        /\ UuidByte(fn_out, 8) \div 64 = 2
        /\ UuidByte(fn_out, 8) % 64 = fn_args.hash[9] % 64
        /\ \A i \in (0..15) \ {6, 8} : UuidByte(fn_out, i) = fn_args.hash[i + 1]

\* a digest whose bytes 6 and 8 had other high bits was made into a UUID
C14_Witness ==
    /\ fn_pc = "out"
    /\ fn_args.fn = "derive_uuid"
    /\ fn_args.hash[7] \div 16 # 4
    /\ fn_args.hash[9] \div 64 # 2
    /\ Len(fn_out) = 36

(***************************************************************************)
(* The node on one read, the aligner returning a status other than          *)
(* EDLIB_STATUS_OK from every call.                                        *)
(***************************************************************************)
AlignerInit ==
    /\ m_settings \in {Settings(TRUE, s) : s \in BOOLEAN}
    /\ build \in [ndebug : BOOLEAN, ub_abort : BOOLEAN, utc_offset : {0},
                  edlib_status : {"ERROR"}]
    /\ \E r \in WideReads : NodeConstructed(1, <<ReadMessage(r)>>)
    /\ FnIdle

SpecAligner == AlignerInit /\ [][WideNext]_vars

\* nothing but the aligner can end the process on the read: the subrange
\* ADAPTER_FLANK searches is valid and detect_pore_signal() passes its
\* assertion
SoundButForAligner(read) ==
    /\ Len(read.seq) >= m_settings.expect_adapter_prefix
    /\ possible_pore_regions_status(ExtRead(read), m_settings.pore_thr) = "ok"
    /\ possible_pore_regions_status(ExtRead(read), m_settings.relaxed_pore_thr) = "ok"

\* C15: when the aligner returns a status other than OK,
\* find_best_adapter_match returns no match and check_rc_match returns false,
\* no cut is made, and the worker goes on without the process being ended.
C15_AlignerFailureNoCut ==
    (/\ build.edlib_status # "OK"
     /\ \A k \in 1..Len(accepted) : SoundButForAligner(accepted[k].body[1])) =>
        /\ ~aborted
        /\ \A w \in Workers : workers[w].cuts = <<>>
        /\ \A k \in 1..Len(m_sink.log) : m_sink.log[k].cuts = <<>>

\* in a build without assertions no cut is made, the process goes on and the
\* read is pushed as it came
C15_AlignerFailureNoCutNdebug ==
    (/\ build.edlib_status # "OK"
     /\ build.ndebug
     /\ \A k \in 1..Len(accepted) : SoundButForAligner(accepted[k].body[1])) =>
        /\ ~aborted
        /\ \A w \in Workers : workers[w].cuts = <<>>
        /\ \A k \in 1..Len(m_sink.log) : m_sink.log[k].cuts = <<>>

(***************************************************************************)
(* The node on one read that breaks the invariant of the pipeline: the     *)
(* move vector is empty or does not sum to len(seq).                       *)
(***************************************************************************)
MalformedReads ==
    {r \in UNION {{MkRead(<<"r", 1>>, seq, [k \in 1..Len(seq) |-> "!"], moves, raw_data, 2) :
                      seq \in SeqsUpTo(WideBases, 2),
                      raw_data \in {x \in WideSignals : Len(x) = 2 * Len(moves)}} :
                  moves \in SeqsUpTo({0, 1}, 2)} :
        r.moves = <<>> \/ SumSeq(r.moves) # Len(r.seq)}

MalformedInit ==
    /\ m_settings \in {Settings(TRUE, s) : s \in BOOLEAN}
    /\ build \in Builds
    /\ \E r \in MalformedReads : NodeConstructed(1, <<ReadMessage(r)>>)
    /\ FnIdle

SpecMalformed == MalformedInit /\ [][WideNext]_vars

\* the read breaks the cumulative-sum invariant
Malformed(read) == read.moves = <<>> \/ SumSeq(read.moves) # Len(read.seq)

\* C16: a Read whose move vector is empty or does not sum to len(seq) is
\* rejected when its ExtRead is constructed: the process ends there, before
\* any strategy runs on the read, so the worker that took it comes to push
\* nothing and nothing made of it reaches the sink.
C16_MalformedRejected ==
    /\ \A w \in Workers :
           (workers[w].message # <<>> /\ Malformed(workers[w].message.body[1])) =>
               workers[w].pc = "aborted" /\ workers[w].cuts = <<>>
    /\ \A k \in 1..Len(m_sink.log) : ~Malformed(m_sink.log[k].input.body[1])

\* in a build with assertions a read with a move vector that is not empty
\* and does not sum to len(seq) ends the process
C16_MalformedRejectedDebug ==
    \A w \in Workers :
        (/\ ~build.ndebug
         /\ workers[w].message # <<>>
         /\ workers[w].message.body[1].moves # <<>>
         /\ Malformed(workers[w].message.body[1])) =>
            workers[w].pc = "aborted" /\ workers[w].cuts = <<>>

(***************************************************************************)
(* Scheduling: a worker thread that can take a step takes one, and so does *)
(* the thread running the destructor once it has begun.  Nothing makes     *)
(* upstream push or the destructor begin.                                  *)
(***************************************************************************)
WorkerStep(w) ==
    \/ PopDisabled(w)
    \/ PopNotRead(w)
    \/ Forward(w)
    \/ PushSubread(w)
    \/ WorkerExit(w)

\* ENABLED <<PopRead(w)>>_vars: PopRead pops, so it changes vars wherever
\* its guard holds
PopReadEnabled(w) ==
    /\ ~aborted
    /\ w \in Workers
    /\ workers[w].pc = "pop"
    /\ m_work_queue.items # <<>>
    /\ m_settings.enabled
    /\ Head(m_work_queue.items).kind = "Read"

\* WF_vars(PopRead(w)), written out on the guard
FairPopRead(w) == []<>(~PopReadEnabled(w)) \/ []<><<PopRead(w)>>_vars

LiveStreams ==
    {stream \in InputStreams :
        \A i \in 1..Len(stream) :
            stream[i].kind = "Read" =>
                /\ stream[i].body[1].seq = <<"C", "A", "C">>
                /\ stream[i].body[1].raw_data = <<0, 0, 2, 0, 0, 0>>}

LiveInit ==
    /\ m_settings \in {Settings(e, s) : e \in BOOLEAN, s \in BOOLEAN}
    /\ build \in Builds
    /\ \E n \in 1..MaxWorkers, stream \in LiveStreams : NodeConstructed(n, stream)
    /\ FnIdle

FairSpec ==
    /\ LiveInit
    /\ [][Next]_vars
    /\ \A w \in 1..MaxWorkers : WF_vars(WorkerStep(w)) /\ FairPopRead(w)
    /\ WF_vars(DtorJoin)
    /\ WF_vars(DtorTerminateSink)

\* C17: the destructor terminates the work queue before it joins the
\* workers, and once it has begun every worker leaves its loop and the
\* destructor returns, whatever upstream did.
C17_DestructorReturns ==
    /\ [](dtor.pc # "alive" => m_work_queue.terminate)
    /\ (dtor.pc = "join") ~>
           (dtor.pc = "done" /\ \A w \in Workers : workers[w].pc = "exited")

\* the same in the runs in which the process is not ended on the way
C17_DestructorReturnsUnlessEnded ==
    /\ [](dtor.pc # "alive" => m_work_queue.terminate)
    /\ (dtor.pc = "join") ~>
           (aborted \/ (dtor.pc = "done" /\ \A w \in Workers : workers[w].pc = "exited"))

\* how often message m is in the sequence of messages s
TimesIn(m, s) == Cardinality({i \in 1..Len(s) : s[i] = m})

\* the inputs whose last output has been pushed
Finished == [j \in 1..Len(m_sink.log) |->
                IF m_sink.log[j].rest = 0 THEN m_sink.log[j].input ELSE <<>>]

\* C18: when the sink is terminated, every message the work queue accepted
\* has been popped and processed and all its outputs are in the sink: the
\* queue is empty, no worker holds a message, and nothing was pushed after
\* the sink's termination.
C18_CloseAndDrain ==
    m_sink.terminate_calls > 0 =>
        /\ m_work_queue.items = <<>>
        /\ \A w \in Workers : workers[w].pc = "exited" /\ workers[w].to_split = <<>>
        /\ \A k \in 1..Len(accepted) : TimesIn(accepted[k], Finished) = TimesIn(accepted[k], accepted)
        /\ \A j \in 1..Len(m_sink.log) : ~m_sink.log[j].after_terminate

\* the sink was terminated after the node had accepted MaxMessages messages,
\* one of them a read that was split
C18_Witness ==
    /\ m_sink.terminate_calls > 0
    /\ Len(accepted) = MaxMessages
    /\ \E j \in 1..Len(m_sink.log) : m_sink.log[j].rest > 0

(***************************************************************************)
(* detect_pore_signal and merge_ranges on their own: signals of up to      *)
(* MaxSignal samples with levels 0..2, and lists of up to MaxRanges ranges *)
(* [first, second) over the positions 0..MaxPos, sorted by first.          *)
(***************************************************************************)
MaxSignal == 6
MaxRanges == 3
MaxPos == 4

PoreCalls ==
    [fn : {"detect_pore_signal"},
     signal : UNION {[1..n -> 0..2] : n \in 0..MaxSignal},
     threshold : 0..1,
     cluster_dist : 0..2,
     ignore_prefix : 0..3]

MergeCalls ==
    [fn : {"merge_ranges"},
     ranges : {ranges \in UNION {[1..n -> {r \in (0..MaxPos) \X (0..MaxPos) : r[1] <= r[2]}] :
                                    n \in 0..MaxRanges} :
                   \A k \in 1..(Len(ranges) - 1) : First(ranges[k]) <= First(ranges[k + 1])},
     merge_dist : 0..2]

RangesInit ==
    /\ fn_pc = "in"
    /\ fn_args \in PoreCalls \cup MergeCalls
    /\ build \in [ndebug : BOOLEAN, ub_abort : {FALSE}, utc_offset : {0},
                  edlib_status : {"OK"}]
    /\ m_settings = DefaultSettings
    /\ fn_read = <<>>
    /\ fn_spacers = <<>>
    /\ fn_out = <<>>
    /\ NodeIdle

\* detect_pore_signal(signal, threshold, cluster_dist, ignore_prefix); the
\* assertion at its end ends the process in a build with assertions
CallDetectPoreSignal ==
    /\ fn_pc = "in"
    /\ fn_args.fn = "detect_pore_signal"
    /\ fn_pc' = "out"
    /\ aborted' = (~build.ndebug /\ ~detect_pore_signal_assert(fn_args.signal,
                       fn_args.threshold, fn_args.cluster_dist, fn_args.ignore_prefix))
    /\ fn_out' = IF aborted' THEN <<>>
                 ELSE detect_pore_signal(fn_args.signal, fn_args.threshold,
                                         fn_args.cluster_dist, fn_args.ignore_prefix)
    /\ UNCHANGED <<othernodes, m_settings, build, m_split_finders, m_num_worker_threads, m_work_queue,
                   workers, m_sink, dtor, upstream, accepted, fn_read, fn_spacers, fn_args>>

\* merge_ranges(ranges, merge_dist)
CallMergeRanges ==
    /\ fn_pc = "in"
    /\ fn_args.fn = "merge_ranges"
    /\ fn_pc' = "out"
    /\ aborted' = (~build.ndebug /\ ~merge_ranges_assert(fn_args.ranges))
    /\ fn_out' = IF aborted' THEN <<>> ELSE merge_ranges(fn_args.ranges, fn_args.merge_dist)
    /\ UNCHANGED <<othernodes, m_settings, build, m_split_finders, m_num_worker_threads, m_work_queue,
                   workers, m_sink, dtor, upstream, accepted, fn_read, fn_spacers, fn_args>>

SpecRanges == RangesInit /\ [][CallDetectPoreSignal \/ CallMergeRanges]_vars

\* sample i (from 0) of the signal is above the threshold
Above(signal, threshold, i) == signal[i + 1] > threshold

\* what C19 says of the intervals ans returned for a call
PoreIntervals(call, ans) ==
    /\ \A k \in 1..Len(ans) :
           /\ call.ignore_prefix <= First(ans[k])
           /\ First(ans[k]) < Second(ans[k])
           /\ Second(ans[k]) <= Len(call.signal)
           /\ Above(call.signal, call.threshold, First(ans[k]))
           /\ Above(call.signal, call.threshold, Second(ans[k]) - 1)
           /\ \A i \in First(ans[k])..(Second(ans[k]) - 1 - call.cluster_dist) :
                  \E j \in i..(i + call.cluster_dist) : Above(call.signal, call.threshold, j)
    /\ \A k \in 1..(Len(ans) - 1) :
           /\ Second(ans[k]) <= First(ans[k + 1])
           /\ First(ans[k + 1]) - Second(ans[k]) > call.cluster_dist
           /\ \A i \in Second(ans[k])..(First(ans[k + 1]) - 1) :
                  ~Above(call.signal, call.threshold, i)
    /\ \A i \in call.ignore_prefix..(Len(call.signal) - 1) :
           Above(call.signal, call.threshold, i) =>
               \E k \in 1..Len(ans) : First(ans[k]) <= i /\ i < Second(ans[k])

\* C19: for every signal, threshold T, cluster gap D and prefix P,
\* detect_pore_signal returns intervals [a, b) with P <= a < b <= N, disjoint
\* and ordered, each starting and ending on a sample > T, with at most D
\* samples <= T in a row inside, more than D samples <= T between two
\* intervals, and every sample > T from P on is in an interval.
C19_PoreIntervals ==
    fn_pc = "out" /\ fn_args.fn = "detect_pore_signal" =>
        ~aborted /\ PoreIntervals(fn_args, fn_out)

\* the same for the signals that have a sample
C19_PoreIntervalsNonEmptySignal ==
    fn_pc = "out" /\ fn_args.fn = "detect_pore_signal" /\ fn_args.signal # <<>> =>
        ~aborted /\ PoreIntervals(fn_args, fn_out)

\* the same in a build without assertions
C19_PoreIntervalsNdebug ==
    fn_pc = "out" /\ fn_args.fn = "detect_pore_signal" /\ build.ndebug =>
        ~aborted /\ PoreIntervals(fn_args, fn_out)

\* a call that returned two intervals, the first with a sample <= T inside
C19_TwoIntervals ==
    /\ fn_pc = "out"
    /\ fn_args.fn = "detect_pore_signal"
    /\ Len(fn_out) = 2
    /\ \E i \in First(fn_out[1])..(Second(fn_out[1]) - 1) :
           ~Above(fn_args.signal, fn_args.threshold, i)

\* C20: for every input list sorted by first, merge_ranges(ranges, d)
\* returns a list that is sorted by first and non-overlapping, with
\* first <= second in every range and a gap greater than d between every
\* two neighbouring ranges.
C20_MergedRanges ==
    fn_pc = "out" /\ fn_args.fn = "merge_ranges" =>
        /\ ~aborted
        /\ \A k \in 1..Len(fn_out) : First(fn_out[k]) <= Second(fn_out[k])
        /\ \A k \in 1..(Len(fn_out) - 1) :
               /\ First(fn_out[k]) <= First(fn_out[k + 1])
               /\ Second(fn_out[k]) <= First(fn_out[k + 1])
               /\ First(fn_out[k + 1]) - Second(fn_out[k]) > fn_args.merge_dist

\* three ranges, the second inside the first, came out as two with d > 0
C20_Witness ==
    /\ fn_pc = "out"
    /\ fn_args.fn = "merge_ranges"
    /\ fn_args.merge_dist > 0
    /\ Len(fn_args.ranges) = 3
    /\ Second(fn_args.ranges[2]) < Second(fn_args.ranges[1])
    /\ Len(fn_out) = 2

Inside(r, q) == First(q) <= First(r) /\ Second(r) <= Second(q)

\* C27: merge_ranges loses no coverage: for an input list sorted by first,
\* each input range lies inside some range of the result, also when an input
\* range is nested inside the range before it.
C27_MergeKeepsCoverage ==
    fn_pc = "out" /\ fn_args.fn = "merge_ranges" =>
        /\ ~aborted
        /\ \A k \in 1..Len(fn_args.ranges) :
               \E j \in 1..Len(fn_out) : Inside(fn_args.ranges[k], fn_out[j])

\* the same for the input lists that are sorted by second as well
C27_MergeKeepsCoverageNoNesting ==
    /\ fn_pc = "out"
    /\ fn_args.fn = "merge_ranges"
    /\ \A k \in 1..(Len(fn_args.ranges) - 1) :
           Second(fn_args.ranges[k]) <= Second(fn_args.ranges[k + 1])
    => /\ ~aborted
       /\ \A k \in 1..Len(fn_args.ranges) :
              \E j \in 1..Len(fn_out) : Inside(fn_args.ranges[k], fn_out[j])

(***************************************************************************)
(* possible_pore_regions on its own, over the reads of WideReads, both     *)
(* pore thresholds, and settings with pore_cl_dist and expect_pore_prefix  *)
(* in 0..1.                                                                *)
(***************************************************************************)
RegionsInit ==
    /\ fn_pc = "in"
    /\ fn_args \in [fn : {"possible_pore_regions"}, read : WideReads, pore_thr : 0..1]
    /\ build \in [ndebug : BOOLEAN, ub_abort : {FALSE}, utc_offset : {0},
                  edlib_status : {"OK"}]
    /\ m_settings \in {[DefaultSettings EXCEPT !.pore_cl_dist = d, !.expect_pore_prefix = p] :
                          d \in 0..1, p \in 0..1}
    /\ fn_read = <<>>
    /\ fn_spacers = <<>>
    /\ fn_out = <<>>
    /\ NodeIdle

\* possible_pore_regions(ExtRead(read), pore_thr)
CallPossiblePoreRegions ==
    /\ fn_pc = "in"
    /\ fn_args.fn = "possible_pore_regions"
    /\ fn_pc' = "out"
    /\ fn_out' = [status |-> possible_pore_regions_status(ExtRead(fn_args.read),
                                                          fn_args.pore_thr),
                  signal_regions |-> PoreSignalRegions(ExtRead(fn_args.read),
                                                       fn_args.pore_thr),
                  regions |-> possible_pore_regions(ExtRead(fn_args.read), fn_args.pore_thr)]
    /\ UNCHANGED <<othernodes, m_settings, build, nodevars, fn_read, fn_spacers, fn_args>>

SpecRegions == RegionsInit /\ [][CallPossiblePoreRegions]_vars

\* the number of bases emitted up to move entry i (from 0)
BasesUpTo(moves, i) == SumSeq(SubSeq(moves, 1, i + 1))

\* the move index of sample x
MoveOf(read, x) == x \div read.model_stride

\* the pore signal interval is not discarded
RegionEmitted(read, interval) ==
    /\ MoveOf(read, First(interval)) < Len(read.moves)
    /\ MoveOf(read, Second(interval)) < Len(read.moves)
    /\ BasesUpTo(read.moves, MoveOf(read, First(interval))) # 0

\* C22: possible_pore_regions discards a pore signal interval whose start
\* or end move index is >= len(moves) or up to whose start no base was
\* emitted, and emits [move_cumsum[a_m] - 1, move_cumsum[b_m]) for each
\* other, in order; every emitted range has first < second <= len(seq) and
\* the list is ordered by first.
C22_PoreRegions ==
    fn_pc = "out" /\ fn_args.fn = "possible_pore_regions" =>
        LET read == fn_args.read
            emitted == SelectSeq(fn_out.signal_regions, LAMBDA x : RegionEmitted(read, x))
        IN /\ fn_out.status = "ok"
           /\ Len(fn_out.regions) = Len(emitted)
           /\ \A k \in 1..Len(fn_out.regions) :
                  /\ First(fn_out.regions[k]) =
                         BasesUpTo(read.moves, MoveOf(read, First(emitted[k]))) - 1
                  /\ Second(fn_out.regions[k]) =
                         BasesUpTo(read.moves, MoveOf(read, Second(emitted[k])))
                  /\ First(fn_out.regions[k]) < Second(fn_out.regions[k])
                  /\ Second(fn_out.regions[k]) <= Len(read.seq)
           /\ \A k \in 1..(Len(fn_out.regions) - 1) :
                  First(fn_out.regions[k]) <= First(fn_out.regions[k + 1])

\* of two pore signal intervals one was discarded and one emitted
C22_Witness ==
    /\ fn_pc = "out"
    /\ fn_args.fn = "possible_pore_regions"
    /\ Len(fn_out.signal_regions) = 2
    /\ Len(fn_out.regions) = 1

\* two pore signal intervals were emitted as the same range
C22_SameRangeTwice ==
    /\ fn_pc = "out"
    /\ fn_args.fn = "possible_pore_regions"
    /\ Len(fn_out.regions) = 2
    /\ fn_out.regions[1] = fn_out.regions[2]

\* the spacer lists that workers passed to split(), with their finders
CutsMade ==
    UNION {Elements(workers[w].cuts) : w \in Workers}
        \cup UNION {Elements(m_sink.log[k].cuts) : k \in 1..Len(m_sink.log)}

\* sorted by first and pairwise disjoint
SpacersOrdered(spacers) ==
    \A k \in 1..(Len(spacers) - 1) :
        /\ First(spacers[k]) <= First(spacers[k + 1])
        /\ Second(spacers[k]) <= First(spacers[k + 1])
        /\ spacers[k] # spacers[k + 1]

\* C23: every spacer list that the worker loop passes to split(), from any
\* of the strategies, is sorted by first and pairwise disjoint; PORE_ADAPTER
\* never yields two overlapping or identical spacers.
C23_SpacersOrdered ==
    \A cut \in CutsMade : SpacersOrdered(cut.spacers)

\* the same for the strategies other than PORE_ADAPTER
C23_SpacersOrderedOtherFinders ==
    \A cut \in CutsMade : cut.finder # "PORE_ADAPTER" => SpacersOrdered(cut.spacers)

\* C24: the assertions at the head of subread() hold at every call made by
\* split(): the child's signal start is a multiple of the stride, and its
\* signal end is a multiple of the stride or the end of the signal together
\* with the end of the sequence; also when a spacer ends at len(seq) and the
\* signal length is not a multiple of the stride.
C24_SubreadPreconditions ==
    fn_pc = "out" /\ fn_spacers # <<>> =>
        \A k \in 1..Len(fn_out.calls) :
            subread_pre(fn_read, fn_out.calls[k][1], fn_out.calls[k][2])

\* the same for the cuts of reads whose signal is a whole number of strides
\* and for the cuts whose last spacer ends before len(seq)
C24_SubreadPreconditionsNoTailSpacer ==
    /\ fn_pc = "out"
    /\ fn_spacers # <<>>
    /\ \/ ~RaggedTail(fn_read)
       \/ Second(fn_spacers[Len(fn_spacers)]) < Len(fn_read.seq)
    => \A k \in 1..Len(fn_out.calls) :
           subread_pre(fn_read, fn_out.calls[k][1], fn_out.calls[k][2])

\* the search subranges that split_f of description passes to
\* find_best_adapter_match for the read
SearchRanges(description, read) ==
    CASE description = "PORE_ADAPTER" ->
            {NearbyAdapterRange(read.read, r) :
                r \in Elements(possible_pore_regions(read, m_settings.pore_thr))}
      [] description = "PORE_ALL" ->
            {NearbyAdapterRange(read.read, r) :
                r \in Elements(possible_pore_regions(read, m_settings.relaxed_pore_thr))}
      [] description = "ADAPTER_FLANK" -> {AdapterFlankRange(read)}
      [] description = "ADAPTER_MIDDLE" ->
            IF \/ Len(read.read.seq) < m_settings.end_flank + m_settings.start_flank
               \/ Len(read.read.seq) < m_settings.middle_adapter_search_span
            THEN {}
            ELSE {MiddleSearchRange(read.read)}
      [] OTHER -> {}

\* the search subranges of the finder at place i are valid on every read it
\* is called on, for the read that worker w took
SearchRangesValid(w, i) ==
    \E before \in {ProcessRead(SubSeq(m_split_finders, 1, i - 1), workers[w].message.body[1])} :
        ~before.abort =>
            \A r \in Elements(before.reads) :
                \A subrange \in SearchRanges(m_split_finders[i], r) :
                    SubrangeValid(r.read.seq, subrange)

\* worker w has run the strategies on the read it took
RanFinders(w) == w \in Workers /\ workers[w].pc \in {"push", "aborted"}

\* C25: at every call of find_best_adapter_match made by a strategy, the
\* search subrange has first <= second <= len(seq), for reads of any length,
\* also those shorter than expect_adapter_prefix.
C25_SearchRangesValid ==
    \A w \in 1..MaxWorkers :
        RanFinders(w) => \A i \in 1..Len(m_split_finders) : SearchRangesValid(w, i)

\* the same for the strategies other than ADAPTER_FLANK
C25_SearchRangesValidOtherFinders ==
    \A w \in 1..MaxWorkers :
        RanFinders(w) =>
            \A i \in 1..Len(m_split_finders) :
                m_split_finders[i] # "ADAPTER_FLANK" => SearchRangesValid(w, i)

\* C26: no subread produced by a cut has an empty sequence or an empty move
\* vector, also when a spacer starts at position 0 of the read or ends at
\* len(seq).
C26_ChildrenNotEmpty ==
    \A cut \in CutsMade :
        \A child \in Elements(split(cut.read, cut.spacers)) :
            child.seq # <<>> /\ child.moves # <<>>

\* split() on its own: the children of a cut whose spacers leave a base
\* before, between and after them have a base and a move entry each
C26_ChildrenNotEmptyInnerSpacers ==
    /\ fn_pc = "out"
    /\ First(fn_spacers[1]) > 0
    /\ Second(fn_spacers[Len(fn_spacers)]) < Len(fn_read.seq)
    /\ \A k \in 1..(Len(fn_spacers) - 1) : Second(fn_spacers[k]) < First(fn_spacers[k + 1])
    => \A k \in 1..Len(fn_out.subreads) :
           fn_out.subreads[k].seq # <<>> /\ fn_out.subreads[k].moves # <<>>

(***************************************************************************)
(* The ModBaseCallerNode (src/dorado/read_pipeline/ModBaseCallerNode.cpp)  *)
(* with one caller: input workers pop reads and cut them into chunks,      *)
(* runner workers batch the chunks and call them, the output worker        *)
(* collects the called chunks and pushes the completed reads.  A read is   *)
(* [id, hits]: hits is the number of motif hits, one chunk each.  The      *)
(* work queue, the variant and the runners' models are outside src/.       *)
(*                                                                         *)
(* m_processed_chunks_mutex is held by the output worker from the test of  *)
(* its wait predicate until it blocks ("about_to_wait"); every other       *)
(* critical section is one step.  A notify wakes the output worker only    *)
(* where it is blocked ("waiting").  The runners wait with a timeout, so   *)
(* they test their predicate again and again.                              *)
(***************************************************************************)
MaxMbReads == 2
MaxHits == 2
MaxMbThreads == 2

MbStreams == UNION {[1..n -> 0..MaxHits] : n \in 0..MaxMbReads}

\* the state after the constructor
MbConstructed(remora_threads, runners, batch_size, stream) ==
    [batch_size |-> batch_size,
     upstream |-> [k \in 1..Len(stream) |-> [id |-> k, hits |-> stream[k]]],
     work_queue |-> [items |-> <<>>, terminate |-> FALSE],
     popped |-> <<>>,
     input |-> [i \in 1..remora_threads |-> [pc |-> "pop", read |-> <<>>]],
     num_active_input_worker |-> remora_threads,
     terminate_runners |-> FALSE,
     chunk_queue |-> <<>>,
     runner |-> [j \in 1..runners |-> [pc |-> "wait", batched_chunks |-> <<>>]],
     num_active_runner_workers |-> runners,
     terminate_output |-> FALSE,
     processed_chunks |-> <<>>,
     num_modbase_chunks |-> [k \in 1..MaxMbReads |-> 0],
     num_modbase_chunks_called |-> [k \in 1..MaxMbReads |-> 0],
     working_reads |-> <<>>,
     output |-> "lock",
     sink |-> [log |-> <<>>, terminate_calls |-> 0]]

MbInit ==
    /\ modbase \in {MbConstructed(n, r, b, stream) :
                       n \in 1..MaxMbThreads, r \in 1..MaxMbThreads, b \in 1..2,
                       stream \in MbStreams}
    /\ aligner = <<>>
    /\ m_settings = DefaultSettings
    /\ build \in [ndebug : {TRUE}, ub_abort : {FALSE}, utc_offset : {0}, edlib_status : {"OK"}]
    /\ SplitNodeIdle
    /\ FnIdle

\* m_sink.push_message(read)
MbSinkPush(sink, read) ==
    [sink EXCEPT !.log = Append(@, [id |-> read.id,
                                    after_terminate |-> sink.terminate_calls > 0])]

\* notify_one on m_processed_chunks_cv
MbNotifyOutput(output) == IF output = "waiting" THEN "lock" ELSE output

\* push_message of the upstream node
MbUpstreamPush ==
    /\ modbase.upstream # <<>>
    /\ ~modbase.work_queue.terminate
    /\ modbase' = [modbase EXCEPT !.work_queue.items = Append(@, Head(modbase.upstream)),
                                  !.upstream = Tail(@)]
    /\ UNCHANGED <<m_settings, build, nodevars, fnvars, aligner>>

\* terminate() of the node, by the upstream node or by the destructor
MbTerminate ==
    /\ ~modbase.work_queue.terminate
    /\ modbase' = [modbase EXCEPT !.work_queue.terminate = TRUE]
    /\ UNCHANGED <<m_settings, build, nodevars, fnvars, aligner>>

\* input_worker_thread: try_pop returned a read
InputPop(i) ==
    /\ i \in DOMAIN modbase.input
    /\ modbase.input[i].pc = "pop"
    /\ modbase.work_queue.items # <<>>
    /\ modbase' = [modbase EXCEPT
           !.work_queue.items = Tail(@),
           !.popped = Append(@, Head(modbase.work_queue.items).id),
           !.input[i] = [pc |-> "chunks", read |-> Head(modbase.work_queue.items)]]
    /\ UNCHANGED <<m_settings, build, nodevars, fnvars, aligner>>

\* input_worker_thread: the chunk queue has room; one chunk per motif hit is
\* made, counted in num_modbase_chunks and put into the chunk queue
InputEnqueue(i) ==
    /\ i \in DOMAIN modbase.input
    /\ modbase.input[i].pc = "chunks"
    /\ Len(modbase.chunk_queue) < modbase.batch_size * 5
    /\ modbase' = [modbase EXCEPT
           !.chunk_queue = @ \o [c \in 1..modbase.input[i].read.hits |->
                                    modbase.input[i].read.id],
           !.num_modbase_chunks[modbase.input[i].read.id] = modbase.input[i].read.hits,
           !.input[i].pc = "file"]
    /\ UNCHANGED <<m_settings, build, nodevars, fnvars, aligner>>

\* input_worker_thread: the read goes to the working list, or to the sink
\* when it has no chunk
InputFile(i) ==
    /\ i \in DOMAIN modbase.input
    /\ modbase.input[i].pc = "file"
    /\ modbase' = [modbase EXCEPT
           !.working_reads = IF modbase.input[i].read.hits # 0
                             THEN Append(@, modbase.input[i].read) ELSE @,
           !.sink = IF modbase.input[i].read.hits # 0
                    THEN @ ELSE MbSinkPush(@, modbase.input[i].read),
           !.input[i] = [pc |-> "pop", read |-> <<>>]]
    /\ UNCHANGED <<m_settings, build, nodevars, fnvars, aligner>>

\* input_worker_thread: try_pop returned false; the last input worker sets
\* m_terminate_runners
InputExit(i) ==
    /\ i \in DOMAIN modbase.input
    /\ modbase.input[i].pc = "pop"
    /\ modbase.work_queue.items = <<>>
    /\ modbase.work_queue.terminate
    /\ modbase' = [modbase EXCEPT
           !.num_active_input_worker = @ - 1,
           !.terminate_runners = @ \/ modbase.num_active_input_worker = 1,
           !.input[i].pc = "done"]
    /\ UNCHANGED <<m_settings, build, nodevars, fnvars, aligner>>

\* modbasecall_worker_thread: chunks are moved from the chunk queue to the
\* batch, as many as the batch has room for
RunnerTake(j) ==
    /\ j \in DOMAIN modbase.runner
    /\ modbase.runner[j].pc = "wait"
    /\ modbase.chunk_queue # <<>>
    /\ \E n \in {Min(modbase.batch_size - Len(modbase.runner[j].batched_chunks),
                     Len(modbase.chunk_queue))} :
           modbase' = [modbase EXCEPT
               !.chunk_queue = SubSeq(@, n + 1, Len(@)),
               !.runner[j] = [pc |-> IF Len(@.batched_chunks) + n = modbase.batch_size
                                     THEN "call" ELSE "wait",
                              batched_chunks |-> @.batched_chunks
                                                     \o SubSeq(modbase.chunk_queue, 1, n)]]
    /\ UNCHANGED <<m_settings, build, nodevars, fnvars, aligner>>

\* call_current_batch by runner j, which goes on at next_pc
CallCurrentBatch(j, next_pc) ==
    /\ modbase.output # "about_to_wait"
    /\ modbase' = [modbase EXCEPT
           !.processed_chunks = @ \o modbase.runner[j].batched_chunks,
           !.output = MbNotifyOutput(@),
           !.runner[j] = [pc |-> next_pc, batched_chunks |-> <<>>]]

\* modbasecall_worker_thread: the batch is full
RunnerCall(j) ==
    /\ j \in DOMAIN modbase.runner
    /\ modbase.runner[j].pc = "call"
    /\ CallCurrentBatch(j, "wait")
    /\ UNCHANGED <<m_settings, build, nodevars, fnvars, aligner>>

\* modbasecall_worker_thread: the wait timed out with chunks in the batch
RunnerTimeout(j) ==
    /\ j \in DOMAIN modbase.runner
    /\ modbase.runner[j].pc = "wait"
    /\ modbase.chunk_queue = <<>>
    /\ ~modbase.terminate_runners
    /\ modbase.runner[j].batched_chunks # <<>>
    /\ CallCurrentBatch(j, "wait")
    /\ UNCHANGED <<m_settings, build, nodevars, fnvars, aligner>>

\* modbasecall_worker_thread: no chunk left and m_terminate_runners set; the
\* remaining batch is called and the count of active runners reduced
RunnerExit(j) ==
    /\ j \in DOMAIN modbase.runner
    /\ modbase.runner[j].pc = "wait"
    /\ modbase.chunk_queue = <<>>
    /\ modbase.terminate_runners
    /\ modbase.runner[j].batched_chunks # <<>> => modbase.output # "about_to_wait"
    /\ modbase' = [modbase EXCEPT
           !.processed_chunks = @ \o modbase.runner[j].batched_chunks,
           !.output = IF modbase.runner[j].batched_chunks # <<>>
                      THEN MbNotifyOutput(@) ELSE @,
           !.num_active_runner_workers = @ - 1,
           !.runner[j] = [pc |-> IF modbase.num_active_runner_workers = 1
                                 THEN "signal" ELSE "done",
                          batched_chunks |-> <<>>]]
    /\ UNCHANGED <<m_settings, build, nodevars, fnvars, aligner>>

\* modbasecall_worker_thread, the last runner: m_terminate_output = true;
\* m_processed_chunks_cv.notify_one()
RunnerSignalOutput(j) ==
    /\ j \in DOMAIN modbase.runner
    /\ modbase.runner[j].pc = "signal"
    /\ modbase' = [modbase EXCEPT
           !.terminate_output = TRUE,
           !.output = MbNotifyOutput(@),
           !.runner[j].pc = "done"]
    /\ UNCHANGED <<m_settings, build, nodevars, fnvars, aligner>>

\* output_worker_thread: the wait predicate is tested with the mutex held;
\* the called chunks are counted on their reads, or the sink is terminated,
\* or the thread is about to block
OutputCheck ==
    /\ modbase.output = "lock"
    /\ modbase' =
           IF modbase.processed_chunks # <<>>
           THEN [modbase EXCEPT
                    !.num_modbase_chunks_called =
                        [k \in 1..MaxMbReads |->
                            @[k] + Cardinality({c \in DOMAIN modbase.processed_chunks :
                                                   modbase.processed_chunks[c] = k})],
                    !.processed_chunks = <<>>,
                    !.output = "scan"]
           ELSE IF modbase.terminate_output
           THEN [modbase EXCEPT !.sink.terminate_calls = @ + 1, !.output = "done"]
           ELSE [modbase EXCEPT !.output = "about_to_wait"]
    /\ UNCHANGED <<m_settings, build, nodevars, fnvars, aligner>>

\* output_worker_thread: the wait releases the mutex and blocks
OutputBlock ==
    /\ modbase.output = "about_to_wait"
    /\ modbase' = [modbase EXCEPT !.output = "waiting"]
    /\ UNCHANGED <<m_settings, build, nodevars, fnvars, aligner>>

\* the reads of the working list whose chunks have all been called
MbCompleted(read) ==
    modbase.num_modbase_chunks_called[read.id] = modbase.num_modbase_chunks[read.id]

RECURSIVE MbPushAll(_, _)
MbPushAll(sink, reads) ==
    IF reads = <<>> THEN sink ELSE MbPushAll(MbSinkPush(sink, Head(reads)), Tail(reads))

\* output_worker_thread: the completed reads of the working list are pushed
\* to the sink and erased
OutputScan ==
    /\ modbase.output = "scan"
    /\ modbase' = [modbase EXCEPT
           !.sink = MbPushAll(@, SelectSeq(modbase.working_reads, MbCompleted)),
           !.working_reads = SelectSeq(@, LAMBDA read : ~MbCompleted(read)),
           !.output = "lock"]
    /\ UNCHANGED <<m_settings, build, nodevars, fnvars, aligner>>

InputStep(i) == InputPop(i) \/ InputEnqueue(i) \/ InputFile(i) \/ InputExit(i)

RunnerStep(j) ==
    RunnerTake(j) \/ RunnerCall(j) \/ RunnerTimeout(j) \/ RunnerExit(j) \/ RunnerSignalOutput(j)

OutputStep == OutputCheck \/ OutputBlock \/ OutputScan

MbNext ==
    \/ MbUpstreamPush
    \/ MbTerminate
    \/ \E i \in 1..MaxMbThreads : InputStep(i)
    \/ \E j \in 1..MaxMbThreads : RunnerStep(j)
    \/ OutputStep

SpecModBase == MbInit /\ [][MbNext]_vars

\* every thread that can take a step takes one; nothing makes the upstream
\* node push or the queue be terminated
FairSpecModBase ==
    /\ SpecModBase
    /\ \A i \in 1..MaxMbThreads : WF_vars(InputStep(i))
    /\ \A j \in 1..MaxMbThreads : WF_vars(RunnerStep(j))
    /\ WF_vars(OutputStep)

\* how often read id was pushed to the sink
MbPushes(id) ==
    Cardinality({k \in DOMAIN modbase.sink.log : modbase.sink.log[k].id = id})

\* C28: every read popped by an input worker is pushed to the sink exactly
\* once and before the output worker terminates the sink: at once when it
\* has no chunk, otherwise once num_modbase_chunks_called equals
\* num_modbase_chunks; under every interleaving of the threads.
C28_ReadsPushedOnce ==
    /\ \A id \in 1..MaxMbReads : MbPushes(id) <= 1
    /\ \A k \in DOMAIN modbase.sink.log :
           /\ ~modbase.sink.log[k].after_terminate
           /\ modbase.num_modbase_chunks_called[modbase.sink.log[k].id]
                  = modbase.num_modbase_chunks[modbase.sink.log[k].id]
    /\ modbase.sink.terminate_calls > 0 =>
           \A k \in DOMAIN modbase.popped : MbPushes(modbase.popped[k]) = 1

\* the part of C28 that holds: no read is pushed twice, none before its
\* chunks are called, none after the sink's termination
C28_NoReadPushedTwice ==
    /\ \A id \in 1..MaxMbReads : MbPushes(id) <= 1
    /\ \A k \in DOMAIN modbase.sink.log :
           /\ ~modbase.sink.log[k].after_terminate
           /\ modbase.num_modbase_chunks_called[modbase.sink.log[k].id]
                  = modbase.num_modbase_chunks[modbase.sink.log[k].id]

\* C29: termination cascades and completes: once the work queue is
\* terminated, the input workers drain it, the last sets the runners' flag,
\* the runners flush and exit, the last sets the output flag, and the output
\* worker calls terminate() on the sink exactly once and returns.
C29_TerminationCompletes ==
    /\ [](modbase.sink.terminate_calls <= 1)
    /\ modbase.work_queue.terminate ~>
           (modbase.output = "done" /\ modbase.sink.terminate_calls = 1)

\* the part of C29 that holds: the flags are set in their order, the sink is
\* terminated at most once and only by the output worker's return, and the
\* runners all exit
C29_CascadeInOrder ==
    /\ [](/\ modbase.sink.terminate_calls <= 1
          /\ modbase.sink.terminate_calls = 1 <=> modbase.output = "done"
          /\ modbase.terminate_runners => modbase.num_active_input_worker = 0
          /\ modbase.terminate_output => modbase.num_active_runner_workers = 0)
    /\ modbase.work_queue.terminate ~>
           \A j \in DOMAIN modbase.runner : modbase.runner[j].pc = "done"

(***************************************************************************)
(* The Aligner node (src/unnamed/part_002): the constructor starts         *)
(* m_threads worker threads; each counts itself in with m_active++, aligns *)
(* the messages it pops and pushes the records, and counts itself out; the *)
(* worker that brings m_active to 0 terminates the node's queue and the    *)
(* sink.  The destructor joins the workers without a call of terminate(),  *)
(* so the queue is terminated by the upstream node.  m_active is taken as  *)
(* an atomic counter; a message is [id, records], records being the number *)
(* of records its alignment gives.                                         *)
(***************************************************************************)
MaxBam == 2
MaxRecords == 2
MaxAlignerThreads == 3

BamStreams == UNION {[1..n -> 0..MaxRecords] : n \in 0..MaxBam}

\* the state after the constructor: the threads exist, none has run yet
AlignerConstructed(threads, stream) ==
    [m_threads |-> threads,
     upstream |-> [k \in 1..Len(stream) |-> [id |-> k, records |-> stream[k]]],
     work_queue |-> [items |-> <<>>, terminate |-> FALSE],
     m_active |-> 0,
     worker |-> [w \in 1..threads |-> [pc |-> "start", records |-> <<>>]],
     sink |-> [log |-> <<>>, terminate_calls |-> 0]]

AlignerNodeInit ==
    /\ aligner \in {AlignerConstructed(threads, stream) :
                       threads \in 1..MaxAlignerThreads, stream \in BamStreams}
    /\ modbase = <<>>
    /\ m_settings = DefaultSettings
    /\ build \in [ndebug : {TRUE}, ub_abort : {FALSE}, utc_offset : {0}, edlib_status : {"OK"}]
    /\ SplitNodeIdle
    /\ FnIdle

\* push_message of the upstream node
AlignerUpstreamPush ==
    /\ aligner.upstream # <<>>
    /\ ~aligner.work_queue.terminate
    /\ aligner' = [aligner EXCEPT !.work_queue.items = Append(@, Head(aligner.upstream)),
                                  !.upstream = Tail(@)]
    /\ UNCHANGED <<m_settings, build, nodevars, fnvars, modbase>>

\* terminate() of the node, called by the upstream node
AlignerTerminate ==
    /\ ~aligner.work_queue.terminate
    /\ aligner' = [aligner EXCEPT !.work_queue.terminate = TRUE]
    /\ UNCHANGED <<m_settings, build, nodevars, fnvars, modbase>>

\* worker_thread: int tid = m_active++ % m_threads
AlignerWorkerStart(w) ==
    /\ w \in DOMAIN aligner.worker
    /\ aligner.worker[w].pc = "start"
    /\ aligner' = [aligner EXCEPT !.m_active = @ + 1, !.worker[w].pc = "pop"]
    /\ UNCHANGED <<m_settings, build, nodevars, fnvars, modbase>>

\* worker_thread: try_pop returned a message, which is aligned
AlignerWorkerPop(w) ==
    /\ w \in DOMAIN aligner.worker
    /\ aligner.worker[w].pc = "pop"
    /\ aligner.work_queue.items # <<>>
    /\ aligner' = [aligner EXCEPT
           !.work_queue.items = Tail(@),
           !.worker[w] =
               [pc |-> IF Head(aligner.work_queue.items).records = 0 THEN "pop" ELSE "push",
                records |-> [k \in 1..Head(aligner.work_queue.items).records |->
                                Head(aligner.work_queue.items).id]]]
    /\ UNCHANGED <<m_settings, build, nodevars, fnvars, modbase>>

\* worker_thread: m_sink.push_message(std::move(record))
AlignerWorkerPush(w) ==
    /\ w \in DOMAIN aligner.worker
    /\ aligner.worker[w].pc = "push"
    /\ aligner' = [aligner EXCEPT
           !.sink.log = Append(@, [id |-> Head(aligner.worker[w].records),
                                   after_terminate |-> aligner.sink.terminate_calls > 0]),
           !.worker[w] = [pc |-> IF Len(@.records) = 1 THEN "pop" ELSE "push",
                          records |-> Tail(@.records)]]
    /\ UNCHANGED <<m_settings, build, nodevars, fnvars, modbase>>

\* worker_thread: try_pop returned false; if (--m_active == 0) the node's
\* queue and the sink are terminated
AlignerWorkerExit(w) ==
    /\ w \in DOMAIN aligner.worker
    /\ aligner.worker[w].pc = "pop"
    /\ aligner.work_queue.items = <<>>
    /\ aligner.work_queue.terminate
    /\ aligner' = [aligner EXCEPT
           !.m_active = @ - 1,
           !.sink.terminate_calls = IF aligner.m_active = 1 THEN @ + 1 ELSE @,
           !.worker[w].pc = "done"]
    /\ UNCHANGED <<m_settings, build, nodevars, fnvars, modbase>>

AlignerNext ==
    \/ AlignerUpstreamPush
    \/ AlignerTerminate
    \/ \E w \in 1..MaxAlignerThreads :
           \/ AlignerWorkerStart(w)
           \/ AlignerWorkerPop(w)
           \/ AlignerWorkerPush(w)
           \/ AlignerWorkerExit(w)

SpecAlignerNode == AlignerNodeInit /\ [][AlignerNext]_vars

\* every worker has pushed the records of the messages it popped, and no
\* message is left for a worker to pop
AlignerPushesDone ==
    /\ aligner.work_queue.items = <<>>
    /\ \A w \in DOMAIN aligner.worker : aligner.worker[w].records = <<>>

\* C30: terminate() is called on the sink exactly once, and only after
\* every worker thread has finished pushing its records, under every
\* interleaving of the workers' m_active++ and --m_active == 0.
C30_SinkTerminatedOnceAfterPushes ==
    /\ aligner.sink.terminate_calls <= 1
    /\ (\A w \in DOMAIN aligner.worker : aligner.worker[w].pc = "done")
           => aligner.sink.terminate_calls = 1
    /\ aligner.sink.terminate_calls > 0 => AlignerPushesDone
    /\ \A k \in DOMAIN aligner.sink.log : ~aligner.sink.log[k].after_terminate

\* the part of C30 that holds: the sink is not terminated before every
\* worker has finished pushing, no record is pushed after its termination,
\* and it is terminated once all workers have exited
C30_SinkTerminatedAfterPushes ==
    /\ (\A w \in DOMAIN aligner.worker : aligner.worker[w].pc = "done")
           => aligner.sink.terminate_calls >= 1
    /\ aligner.sink.terminate_calls > 0 => AlignerPushesDone
    /\ \A k \in DOMAIN aligner.sink.log : ~aligner.sink.log[k].after_terminate

====
